---- MODULE Spec2Model ----
(***************************************************************************)
(* A model of the balance hook (useBalances), the wallet controller's safe *)
(* lookups and the token registry (WithTokenList) of the web3 utility      *)
(* layer.  Asynchronous callbacks are modelled one step per resumption:    *)
(* the synchronous prefix of a callback up to its first await is one       *)
(* step, and each return of an awaited balance-service call, together with *)
(* the code that runs until the next await, is one step.                   *)
(***************************************************************************)
EXTENDS Integers, Sequences, FiniteSets, TLC

(***************************************************************************)
(* Bounds of the model.                                                    *)
(***************************************************************************)
\* refresh cycles (dependency trigger, onUpdate, onUpdateSome) started in one run
MaxCycles == 2
\* refresh cycles started in one run over the large token sets
MaxBatchCycles == 2
\* cycles of the hook started in one run of the wallet context
MaxWalletCycles == 4
\* runs of the list-fetching triggers in one run of the registry
MaxFetches == 4
\* calls of onRefresh and onRefreshWithList in one run
MaxRefreshes == 2
\* invocations of onRetrieveQuote in one run
MaxQuotes == 3
\* calls of onWithdraw or onDeposit in one run
MaxVaultCalls == 2
\* calls of onExecuteDeposit in one run
MaxExecutions == 2
\* calls of transferEther in one run
MaxTransfers == 2
\* calls of getConfig and retrieveConfig in one run
MaxConfigCalls == 3
\* size of the largest token set of the batching specification
MaxTokens == 1200

(***************************************************************************)
(* Program constants.                                                      *)
(***************************************************************************)
\* tokens.slice(i, i + 500): the size of one balance-service batch
BatchSize == 500
\* the `undefined` of `address: TAddress | undefined` (wallet not connected)
Undefined == -1
\* the zero-address sentinel toAddress() yields for a missing or invalid input
ZERO_ADDRESS == 0

(***************************************************************************)
(* Addresses.  A textual address is a natural number: 2k is the canonical  *)
(* spelling of account k and 2k + 1 another spelling (another letter case) *)
(* of the same account.                                                    *)
(***************************************************************************)
toAddress(f) == IF f < 0 THEN ZERO_ADDRESS ELSE f - (f % 2)

isZeroAddress(f) == toAddress(f) = ZERO_ADDRESS

\* the accounts a wallet may connect
Accounts == {2, 4}

\* the chains the application is configured for
Chains == {1, 2}

\* the balance values the chain may report
Values == {5, 7}

\* the balance value the chain reports in the batching specification
BatchValues == {5}

(***************************************************************************)
(* Objects used as dictionaries are functions; {} is the empty function.   *)
(***************************************************************************)
EmptyMap == << >>

Get(m, k) == IF k \in DOMAIN m THEN m[k] ELSE EmptyMap

\* {...a, ...b}
Spread(a, b) ==
    [k \in (DOMAIN a) \cup (DOMAIN b) |-> IF k \in DOMAIN b THEN b[k] ELSE a[k]]

Token(a, c) == [address |-> a, chainID |-> c]

\* the entry the balance service reports for one token: a TToken whose
\* balance was read for `owner`
Entry(owner, v) == [owner |-> owner, balance |-> [raw |-> v, normalized |-> v]]

zeroNormalizedBN == [raw |-> 0, normalized |-> 0]

DEFAULT_ERC20 == [owner |-> ZERO_ADDRESS, balance |-> zeroNormalizedBN]

(***************************************************************************)
(* The status record.                                                      *)
(***************************************************************************)
defaultStatus ==
    [isLoading |-> FALSE, isFetching |-> FALSE, isSuccess |-> FALSE,
     isError |-> FALSE, isFetched |-> FALSE, isRefetching |-> FALSE]

\* a status that reports a failure
ErrorStatus == [defaultStatus EXCEPT !.isError = TRUE]

LoadingStatus ==
    [defaultStatus EXCEPT !.isLoading = TRUE, !.isFetching = TRUE,
                          !.isRefetching = defaultStatus.isFetched]

SuccessStatus == [defaultStatus EXCEPT !.isSuccess = TRUE, !.isFetched = TRUE]

\* the `status` field of the value the hook returns
contextValueStatus(s) ==
    IF s.isError THEN "error"
    ELSE IF s.isLoading \/ s.isFetching THEN "loading"
    ELSE IF s.isSuccess THEN "success"
    ELSE "unknown"

(***************************************************************************)
(* State.                                                                  *)
(***************************************************************************)
VARIABLES
    mounted,      \* the hook's effects have run once
    userAddress,  \* useWeb3().address
    chainID,      \* useChainId()
    tokens,       \* props.tokens
    status,       \* useState: TDefaultStatus
    error,        \* useState: 0 is undefined, k > 0 an Error of cycle k
    balances,     \* useState: TChainTokens, exposed as `data`
    data,         \* useRef: [nonce, address, balances]
    cycles,       \* the invocations of the three refresh paths, in start order
    legacy,          \* the single-chain version of WithTokenList is the one mounted
    safeChainID,     \* useChainID().safeChainID
    lists,           \* props.lists: the URIs of the base token lists
    docs,            \* the document each URI serves
    extraTokenlist,  \* storage slot 'extraTokenlists': URIs of the user-added lists
    extraTokens,     \* storage slot 'extraTokens': [defined, value]
    tokenList,       \* useState: the tokens of the base lists
    tokenListExtra,  \* useState: the tokens of the user-added lists
    tokenListCustom, \* useState: the individually added tokens
    fetches,         \* the runs of the two list-fetching triggers, in start order
    aggregated,      \* useMemo: the published aggregatedTokenList, [threw, value]
    added,           \* the tokens addCustomToken has been called with
    refreshes,       \* the calls of onRefresh and onRefreshWithList, in call order
    triggered,       \* the wallet's trigger has run: [ran, extra]
    bridgeInput,      \* useBridge: the props, 0 when one of them is missing
    uniqueIdentifier, \* useBridge: useRef, 0 is undefined
    isFetchingQuote,  \* useBridge: useState
    latestQuote,      \* useBridge: useState, NoQuote is undefined
    quotes,           \* useBridge: the invocations of onRetrieveQuote, in call order
    vaultArgs,        \* useVaultWithdraw / useVaultDeposit: the args of the hook in use
    isWithdrawing,    \* useVaultWithdraw: useState
    isDepositing,     \* useVaultDeposit: useState
    vaultCalls,       \* the calls of onWithdraw and onDeposit, in call order
    executeProps,     \* usePortals / useBridge: what the hook in use has when it executes
    isDepositingOf,   \* usePortals / useBridge: useState isDepositing of the hook in use
    executions,       \* the calls of onExecuteDeposit, in call order
    transfers,        \* the calls of transferEther, in call order
    CONFIG,           \* the module-level configuration, NoConfig is undefined
    configCalls       \* the calls of getConfig and retrieveConfig, in call order

hookVars == <<mounted, userAddress, chainID, tokens, status, error, balances, data, cycles>>

regVars == <<legacy, safeChainID, lists, docs, extraTokenlist, extraTokens,
             tokenList, tokenListExtra, tokenListCustom, fetches, aggregated, added>>

walletVars == <<refreshes, triggered>>

bridgeVars == <<bridgeInput, uniqueIdentifier, isFetchingQuote, latestQuote, quotes>>

vaultVars == <<vaultArgs, isWithdrawing, isDepositing, vaultCalls>>

executeVars == <<executeProps, isDepositingOf, executions>>

configVars == <<CONFIG, configCalls>>

utilVars == <<executeVars, transfers, configVars>>

appVars == <<bridgeVars, vaultVars, utilVars>>

vars == <<hookVars, regVars, walletVars, appVars>>

(***************************************************************************)
(* Grouping and batching.                                                  *)
(***************************************************************************)
\* for (const token of tokens): skip a token of another chain, skip a token
\* whose toAddress is alreadyAdded, push the others.  The loop over
\* list[lo..hi] is evaluated by halves: the tokens the first half keeps,
\* then those the second half keeps whose address the first half has not added.
RECURSIVE GroupLoop(_, _, _, _)
GroupLoop(list, lo, hi, chain) ==
    IF lo > hi THEN << >>
    ELSE IF lo = hi
    THEN (IF list[lo].chainID # chain THEN << >> ELSE <<list[lo]>>)
    ELSE LET mid          == (lo + hi) \div 2
             first        == GroupLoop(list, lo, mid, chain)
             second       == GroupLoop(list, mid + 1, hi, chain)
             alreadyAdded == {toAddress(first[i].address) : i \in 1..Len(first)}
         IN first \o SelectSeq(second, LAMBDA t : toAddress(t.address) \notin alreadyAdded)

\* the grouping without the alreadyAdded test
GroupWithoutDedupe(list, chain) == SelectSeq(list, LAMBDA t : t.chainID = chain)

tokensPerChainID(list, chain) == GroupLoop(list, 1, Len(list), chain)

\* tokenList.filter(({address}) => !isZeroAddress(address))
NonZero(list) == SelectSeq(list, LAMBDA t : ~isZeroAddress(t.address))

\* for (let i = 0; i < n; i += 500) chunks.push(tokens.slice(i, i + 500)):
\* the chunks as index ranges <<lo, hi>> (1-based, inclusive)
RECURSIVE ChunkLoop(_, _, _)
ChunkLoop(n, i, acc) ==
    IF i < n
    THEN ChunkLoop(n, i + BatchSize,
                   Append(acc, <<i + 1, IF i + BatchSize < n THEN i + BatchSize ELSE n>>))
    ELSE acc

\* only the full chunks: the remainder of the token set is dropped
FullChunks(n) ==
    [k \in 1..(n \div BatchSize) |-> <<(k - 1) * BatchSize + 1, k * BatchSize>>]

Chunks(n) == ChunkLoop(n, 0, << >>)

\* which chunks a path hands to the balance service before its first await
FirstCalls(kind, n) ==
    IF kind = "trigger" THEN Len(Chunks(n))
    ELSE IF n > 0 THEN 1 ELSE 0

NewCall(r) == [lo |-> r[1], hi |-> r[2], st |-> "sent", val |-> 0]

NewCycle(kind, list, user, chain) ==
    LET toks == tokensPerChainID(list, chain)
        ch   == Chunks(Len(toks))
    IN [kind |-> kind, user |-> user, chain |-> chain, toks |-> toks,
        calls |-> [k \in 1..FirstCalls(kind, Len(toks)) |-> NewCall(ch[k])]]

CycleDone(c) ==
    /\ Len(c.calls) = Len(Chunks(Len(c.toks)))
    /\ \A k \in 1..Len(c.calls) : c.calls[k].st # "sent"

(***************************************************************************)
(* The balance service.  getBalances returns [entries, undefined] for the  *)
(* tokens of the batch, or [{}, error].                                    *)
(***************************************************************************)
getBalances(owner, toks, call) ==
    IF call.st = "ok"
    THEN [a \in {toAddress(toks[i].address) : i \in call.lo..call.hi}
            |-> Entry(toAddress(owner), call.val)]
    ELSE EmptyMap

(***************************************************************************)
(* The merge into the cache (data.current).                                *)
(***************************************************************************)
\* the cache kept when the owner changes
KeepOnOwnerChange(d, owner) == d

\* if (toAddress(owner) !== data.current.address) data.current = {...}
ResetIfOwnerChanged(d, owner) ==
    IF toAddress(owner) # d.address
    THEN [address |-> toAddress(owner), balances |-> EmptyMap, nonce |-> 0]
    ELSE d

\* a merge in which an entry already held wins over the one supplied
MergeKeepOld(old, raw) ==
    [a \in (DOMAIN old) \cup (DOMAIN raw) |-> IF a \in DOMAIN old THEN old[a] ELSE raw[a]]

\* the chain's entries replaced by the partial instead of merged per key
ReplaceEntries(old, raw) == raw

\* for (const [address, element] of Object.entries(newRawData)) ...
MergeEntries(old, raw) ==
    [a \in (DOMAIN old) \cup (DOMAIN raw) |->
        IF a \in DOMAIN raw
        THEN (IF a \in DOMAIN old THEN Spread(old[a], raw[a]) ELSE raw[a])
        ELSE old[a]]

\* a merge that empties the cache when the partial is empty
MergeOrClear(d, owner, chain, raw) ==
    [address  |-> toAddress(owner),
     balances |-> IF DOMAIN raw = {} THEN EmptyMap
                  ELSE Spread(d.balances, chain :> Spread(Get(d.balances, chain), raw)),
     nonce    |-> d.nonce + 1]

MergeInto(d, owner, chain, raw) ==
    LET base == ResetIfOwnerChanged(d, owner) IN
    [address  |-> toAddress(owner),
     balances |-> IF DOMAIN raw = {} THEN base.balances
                  ELSE Spread(base.balances,
                              chain :> MergeEntries(Get(base.balances, chain), raw)),
     nonce    |-> base.nonce + 1]

\* a state that holds the entries of the chain just refreshed and no other
OnlyChainBalances(b, chain, d) == chain :> Get(d.balances, chain)

\* set_balances(b => ({...b, [chainID]: {...(b[chainID] || {}), ...data.current.balances[chainID]}}))
SetChainBalances(b, chain, d) ==
    Spread(b, chain :> Spread(Get(b, chain), Get(d.balances, chain)))

\* set_balances(previous => { for every chain of data.current.balances ... })
SetAllBalances(b, d) ==
    [c \in (DOMAIN b) \cup (DOMAIN d.balances) |->
        IF c \in DOMAIN d.balances THEN Spread(Get(b, c), d.balances[c]) ELSE b[c]]

(***************************************************************************)
(* The wallet controller's safe lookups over the balances state.  The      *)
(* address is used as the key as it is passed, without toAddress.          *)
(***************************************************************************)
\* chainID || 1
OrMainnet(c) == IF c = 0 THEN 1 ELSE c

\* what a mutant of a lookup returns where JavaScript yields undefined
Absent == [absent |-> TRUE]

\* balances?.[chainID || 1]?.[address] || DEFAULT_ERC20
getToken(b, a, c) ==
    LET chain == Get(b, OrMainnet(c)) IN
    IF a \in DOMAIN chain THEN chain[a] ELSE DEFAULT_ERC20

getBalanceNoFallback(b, a, c) ==
    LET chain == Get(b, OrMainnet(c)) IN
    IF a \in DOMAIN chain THEN chain[a].balance ELSE Absent

\* balances?.[chainID || 1]?.[address]?.balance || zeroNormalizedBN
getBalance(b, a, c) ==
    LET chain == Get(b, OrMainnet(c)) IN
    IF a \in DOMAIN chain THEN chain[a].balance ELSE zeroNormalizedBN

\* the arguments consumers pass to the lookups
LookupAddresses == {0, 10, 11, 12, 14}

LookupChains == {0, 1, 2}

(***************************************************************************)
(* The token registry (WithTokenList).  A token of a list document is      *)
(* [address, chainId, chainID, symbol]; a field the document does not      *)
(* carry is Undefined.                                                     *)
(***************************************************************************)
TokenDoc(a, c, s) == [address |-> a, chainId |-> c, chainID |-> Undefined, symbol |-> s]

\* a token that declares its chain under `chainID`
TokenDocID(a, c, s) == [address |-> a, chainId |-> Undefined, chainID |-> c, symbol |-> s]

\* a token that declares one chain under `chainId` and another under `chainID`
TokenDocBoth(a, c1, c2, s) == [address |-> a, chainId |-> c1, chainID |-> c2, symbol |-> s]

\* a token that declares no chain
TokenDocNoChain(a, s) == [address |-> a, chainId |-> Undefined, chainID |-> Undefined, symbol |-> s]

\* response.value.data of a fulfilled request: a token list, or a document
\* without a `tokens` array (also what a body that is no JSON is read as)
Document(toks) == [hasTokens |-> TRUE, tokens |-> toks]

NoTokensDocument == [hasTokens |-> FALSE, tokens |-> << >>]

\* a ?? b
Coalesce(a, b) == IF a # Undefined THEN a ELSE b

\* the chain a token is stored under, by the trigger that reads it
KeyOf(src, t) ==
    CASE src = "base"   -> t.chainId
      [] src = "extra"  -> Coalesce(t.chainId, t.chainID)
      [] src = "custom" -> Coalesce(t.chainID, t.chainId)

\* the chainID field of the stored token
FieldOf(src, t) ==
    CASE src = "base"   -> t.chainId
      [] src = "extra"  -> Coalesce(t.chainID, t.chainId)
      [] src = "custom" -> Coalesce(t.chainID, t.chainId)

\* the TToken a trigger stores for a token of a document
MakeToken(t, chain) == [address |-> t.address, symbol |-> t.symbol, chainID |-> chain]

\* for (const eachToken of tokens) { if (!tokenListTokens[chain]) ...;
\*   if (!tokenListTokens[chain][toAddress(address)]) tokenListTokens[chain][...] = {...} }
RECURSIVE BuildLoop(_, _, _, _)
BuildLoop(src, toks, i, acc) ==
    IF i > Len(toks) THEN acc
    ELSE LET t == toks[i]
             c == KeyOf(src, t)
             a == toAddress(t.address)
         IN IF c \in DOMAIN acc /\ a \in DOMAIN acc[c]
            THEN BuildLoop(src, toks, i + 1, acc)
            ELSE BuildLoop(src, toks, i + 1,
                           Spread(acc, c :> Spread(Get(acc, c), a :> MakeToken(t, FieldOf(src, t)))))

\* a build without the guard: each later occurrence overwrites
BuildLastWins(src, toks) ==
    BuildLoop(src, [i \in 1..Len(toks) |-> toks[Len(toks) + 1 - i]], 1, EmptyMap)

BuildTokens(src, toks) == BuildLoop(src, toks, 1, EmptyMap)

\* the single-chain version: if (!tokenListTokens[toAddress(address)]) {
\*   if (eachToken.chainId !== safeChainID) continue; tokenListTokens[...] = {...} }
RECURSIVE LegacyLoop(_, _, _, _)
LegacyLoop(toks, i, chain, acc) ==
    IF i > Len(toks) THEN acc
    ELSE LET t == toks[i]
             a == toAddress(t.address)
         IN IF a \in DOMAIN acc \/ t.chainId # chain
            THEN LegacyLoop(toks, i + 1, chain, acc)
            ELSE LegacyLoop(toks, i + 1, chain, Spread(acc, a :> MakeToken(t, t.chainId)))

\* a build that keeps the first token of each address, whatever its chain
BuildAnyChain(toks, chain) ==
    LET first(a) == CHOOSE i \in 1..Len(toks) :
                        /\ toAddress(toks[i].address) = a
                        /\ \A j \in 1..(i - 1) : toAddress(toks[j].address) # a
    IN [a \in {toAddress(toks[i].address) : i \in 1..Len(toks)} |->
           MakeToken(toks[first(a)], toks[first(a)].chainId)]

BuildLegacy(toks, chain) == LegacyLoop(toks, 1, chain, EmptyMap)

\* the tokens of the fulfilled responses, in the order of the URIs
RECURSIVE Fulfilled(_, _, _)
Fulfilled(uris, failed, i) ==
    IF i > Len(uris) THEN << >>
    ELSE (IF uris[i] \in failed THEN << >> ELSE docs[uris[i]].tokens)
         \o Fulfilled(uris, failed, i + 1)

\* tokens.push(...data.tokens) and for (const eachToken of tokens) throw a
\* TypeError when a fulfilled response carries no `tokens` array
TriggerThrows(uris, failed) ==
    \E i \in 1..Len(uris) : uris[i] \notin failed /\ ~docs[uris[i]].hasTokens

\* one source folded into the aggregate:
\* aggregatedTokenList[Number(eachChainID)][toAddress(eachToken.address)] = eachToken
AddSource(agg, source) ==
    [c \in (DOMAIN agg) \cup (DOMAIN source) |->
        IF c \in DOMAIN source
        THEN Spread(Get(agg, c),
                    [a \in {toAddress(source[c][k].address) : k \in DOMAIN source[c]} |->
                        LET k == CHOOSE k \in DOMAIN source[c] : toAddress(source[c][k].address) = a
                        IN source[c][k]])
        ELSE agg[c]]

\* the sources folded in the opposite order
aggregatedReversed(base, extra, custom) ==
    AddSource(AddSource(AddSource(EmptyMap, custom), extra), base)

\* useMemo: the base lists first, then the user-added lists, then the custom tokens
aggregatedTokenList(base, extra, custom) ==
    AddSource(AddSource(AddSource(EmptyMap, base), extra), custom)

\* the single-chain version: {...tokenList, ...tokenListExtra, ...tokenListCustom}
aggregatedLegacy(base, extra, custom) == Spread(Spread(base, extra), custom)

\* Object.values(tokenList[Number(eachChainID)]) of a key that is no number
\* ("undefined") throws a TypeError
aggregateThrows(base, extra, custom) ==
    Undefined \in (DOMAIN base) \cup (DOMAIN extra) \cup (DOMAIN custom)

\* the value useMemo computes when one of the three states is replaced
Memo(base, extra, custom) ==
    IF legacy THEN [threw |-> FALSE, value |-> aggregatedLegacy(base, extra, custom)]
    ELSE IF aggregateThrows(base, extra, custom) THEN [threw |-> TRUE, value |-> EmptyMap]
    ELSE [threw |-> FALSE, value |-> aggregatedTokenList(base, extra, custom)]

(***************************************************************************)
(* Inputs.                                                                 *)
(***************************************************************************)
\* the token sets a consumer passes as props.tokens
TokenLists ==
    { <<Token(10, 1)>>,
      <<Token(10, 1), Token(11, 1), Token(12, 1), Token(10, 1)>>,
      <<Token(12, 1), Token(14, 2), Token(0, 1)>> }

\* the token sets passed to onUpdateSome
SomeLists ==
    { <<Token(12, 1)>>,
      <<Token(11, 1), Token(14, 2)>>,
      <<Token(1, 1)>> }

\* a token set that holds n distinct tokens of chain 1, then the first of
\* them again in another spelling, then a token of chain 2
BigList(n) ==
    [i \in 1..(n + 2) |->
        IF i <= n THEN Token(2 * (i + 10), 1)
        ELSE IF i = n + 1 THEN Token(2 * 11 + 1, 1)
        ELSE Token(8, 2)]

TokenCounts ==
    {1, BatchSize, BatchSize + 1, 2 * BatchSize, 2 * BatchSize + 1, MaxTokens}

(***************************************************************************)
(* Initial states.                                                         *)
(***************************************************************************)
InitHook ==
    /\ mounted = FALSE
    /\ status = defaultStatus
    /\ error = 0
    /\ balances = EmptyMap
    /\ data = [nonce |-> 0, address |-> toAddress(Undefined), balances |-> EmptyMap]
    /\ cycles = << >>

\* WithTokenList before its effects have run
InitRegistry ==
    /\ tokenList = EmptyMap
    /\ tokenListExtra = EmptyMap
    /\ tokenListCustom = EmptyMap
    /\ fetches = << >>
    /\ aggregated = [threw |-> FALSE, value |-> EmptyMap]
    /\ added = {}

\* WalletContextApp before any of its callbacks has been called
NoWallet ==
    /\ refreshes = << >>
    /\ triggered = [ran |-> FALSE, extra |-> << >>]

\* useState<LiFiStep>(): no quote
NoQuote == [input |-> 0, call |-> 0]

\* useBridge before any of its callbacks has been called
InitBridge ==
    /\ uniqueIdentifier = 0
    /\ isFetchingQuote = FALSE
    /\ latestQuote = NoQuote
    /\ quotes = << >>

\* useBridge left out of a specification
NoBridge ==
    /\ InitBridge
    /\ bridgeInput = 0

\* useVaultWithdraw and useVaultDeposit before any call
InitVault ==
    /\ isWithdrawing = FALSE
    /\ isDepositing = FALSE
    /\ vaultCalls = << >>

\* the vault hooks left out of a specification
NoVault ==
    /\ InitVault
    /\ vaultArgs = [hook |-> "none"]

\* usePortals and useBridge before any call of onExecuteDeposit
InitExecute ==
    /\ isDepositingOf = FALSE
    /\ executions = << >>

\* let CONFIG: Config | undefined = undefined
NoConfig == [set |-> FALSE, chains |-> {}, by |-> 0]

\* the configuration module once loaded
InitConfig ==
    /\ CONFIG = NoConfig
    /\ configCalls = << >>

\* the deposit execution, the transfers and the configuration left out of
\* a specification
NoUtil ==
    /\ InitExecute
    /\ executeProps = [hook |-> "none"]
    /\ transfers = << >>
    /\ InitConfig

\* the hooks around the wallet left out of a specification
NoApp ==
    /\ NoBridge
    /\ NoVault
    /\ NoUtil

\* the registry left out of a specification of the balance hook
NoRegistry ==
    /\ InitRegistry
    /\ legacy = FALSE
    /\ safeChainID = 1
    /\ lists = << >>
    /\ docs = EmptyMap
    /\ extraTokenlist = << >>
    /\ extraTokens = [defined |-> FALSE, value |-> << >>]

Init ==
    /\ InitHook
    /\ NoRegistry
    /\ NoWallet
    /\ NoApp
    /\ userAddress \in {Undefined, 2}
    /\ chainID \in Chains
    /\ tokens \in TokenLists

InitBatch ==
    /\ InitHook
    /\ NoRegistry
    /\ NoWallet
    /\ NoApp
    /\ userAddress = 2
    /\ chainID = 1
    /\ tokens \in {BigList(n) : n \in TokenCounts}

\* the documents a base-list URI may serve
TypedBaseDocs ==
    { Document(<< >>),
      Document(<<TokenDoc(10, 1, "BASE")>>),
      Document(<<TokenDoc(11, 1, "SECOND"), TokenDoc(10, 1, "THIRD"), TokenDoc(12, 2, "BASE")>>) }

\* and the documents that stray from the TTokenList type
BaseDocs ==
    TypedBaseDocs
    \cup { Document(<<TokenDocID(14, 1, "ID"), TokenDoc(16, 0, "ZERO")>>),
           NoTokensDocument }

\* the documents a user-added list URI may serve
TypedExtraDocs ==
    { Document(<< >>),
      Document(<<TokenDoc(10, 1, "OVERRIDE")>>),
      Document(<<TokenDoc(12, 2, "EXTRA"), TokenDoc(13, 2, "EXTRA2"), TokenDoc(11, 1, "EXTRA3")>>) }

\* and the documents that stray from the TTokenList type
ExtraDocs ==
    TypedExtraDocs
    \cup { Document(<<TokenDocID(14, 1, "EXTRAID"), TokenDocNoChain(18, "NOCHAIN")>>),
           Document(<<TokenDocBoth(17, 1, 2, "BOTH")>>),
           NoTokensDocument }

\* the contents of the 'extraTokens' storage slot
CustomDocs ==
    { << >>,
      <<TokenDoc(10, 1, "CUSTOM")>>,
      <<TokenDoc(12, 2, "CUSTOM"), TokenDoc(12, 2, "CUSTOM2"), TokenDoc(14, 1, "CUSTOM3")>>,
      <<TokenDocID(14, 2, "CUSTOMID"), TokenDoc(16, 0, "ZERO")>> }

\* the tokens a consumer passes to addCustomToken
CustomTokens == { [address |-> 11, symbol |-> "ADDED", chainID |-> 1] }

InitReg ==
    /\ InitHook
    /\ userAddress = Undefined
    /\ chainID = 1
    /\ tokens = << >>
    /\ NoWallet
    /\ NoApp
    /\ InitRegistry
    /\ legacy \in BOOLEAN
    /\ safeChainID \in Chains
    /\ lists = <<"base1", "base2">>
    /\ extraTokenlist = <<"extra1", "extra2">>
    /\ \E b1 \in BaseDocs, b2 \in TypedBaseDocs, e1 \in ExtraDocs, e2 \in TypedExtraDocs :
          docs = [u \in {"base1", "base2", "extra1", "extra2"} |->
                    CASE u = "base1" -> b1 [] u = "base2" -> b2
                      [] u = "extra1" -> e1 [] u = "extra2" -> e2]
    /\ \/ extraTokens = [defined |-> FALSE, value |-> << >>]
       \/ \E c \in CustomDocs : extraTokens = [defined |-> TRUE, value |-> c]

(***************************************************************************)
(* The refresh paths up to their first await.  The actions of the hook say *)
(* what happens to the hook's state; the specifications say what happens   *)
(* to the state of the components around it.                               *)
(***************************************************************************)
\* useAsyncTrigger(async () => {...}, [stringifiedTokens, userAddress, updateBalancesCall, chainID])
StartTrigger(list, user, chain) ==
    LET c == NewCycle("trigger", list, user, chain) IN
    /\ cycles' = Append(cycles, c)
    /\ status' = IF Len(c.calls) = 0 THEN SuccessStatus ELSE LoadingStatus
    /\ UNCHANGED <<error, balances, data>>

Mount ==
    /\ ~mounted
    /\ mounted' = TRUE
    /\ StartTrigger(tokens, userAddress, chainID)
    /\ UNCHANGED <<userAddress, chainID, tokens>>

SetAccount(a) ==
    /\ mounted
    /\ a # userAddress
    /\ userAddress' = a
    /\ StartTrigger(tokens, a, chainID)
    /\ UNCHANGED <<mounted, chainID, tokens>>

SetChain(c) ==
    /\ mounted
    /\ c # chainID
    /\ chainID' = c
    /\ StartTrigger(tokens, userAddress, c)
    /\ UNCHANGED <<mounted, userAddress, tokens>>

SetTokens(l) ==
    /\ mounted
    /\ l # tokens
    /\ tokens' = l
    /\ StartTrigger(l, userAddress, chainID)
    /\ UNCHANGED <<mounted, userAddress, chainID>>

CallOnUpdate ==
    /\ mounted
    /\ Len(NonZero(tokens)) # 0
    /\ cycles' = Append(cycles, NewCycle("onUpdate", NonZero(tokens), userAddress, chainID))
    /\ status' = LoadingStatus
    /\ UNCHANGED <<mounted, userAddress, chainID, tokens, error, balances, data>>

CallOnUpdateSome(list) ==
    LET c == NewCycle("onUpdateSome", NonZero(list), userAddress, chainID) IN
    /\ mounted
    /\ cycles' = Append(cycles, c)
    /\ IF Len(c.calls) = 0
       THEN /\ balances' = SetAllBalances(balances, data)
            /\ status' = SuccessStatus
       ELSE /\ status' = LoadingStatus
            /\ UNCHANGED balances
    /\ UNCHANGED <<mounted, userAddress, chainID, tokens, error, data>>

(***************************************************************************)
(* The return of one balance-service call and what runs until the next     *)
(* await of that invocation.                                               *)
(***************************************************************************)
GetBalancesReturns(i, k, st, v) ==
    LET c    == cycles[i]
        call == [c.calls[k] EXCEPT !.st = st, !.val = IF st = "ok" THEN v ELSE 0]
        raw  == getBalances(c.user, c.toks, call)
        d    == MergeInto(data, c.user, c.chain, raw)
        ch   == Chunks(Len(c.toks))
        more == c.kind # "trigger" /\ Len(c.calls) < Len(ch)
        cs   == [c.calls EXCEPT ![k] = call]
        c2   == [c EXCEPT !.calls = IF more THEN Append(cs, NewCall(ch[Len(cs) + 1])) ELSE cs]
    IN
    /\ c.calls[k].st = "sent"
    /\ data' = d
    /\ cycles' = [cycles EXCEPT ![i] = c2]
    /\ error' = IF c.kind = "trigger"
                THEN (IF st = "err" THEN i ELSE 0)
                ELSE (IF st = "err" THEN i ELSE error)
    /\ balances' =
         IF c.kind = "trigger" THEN SetChainBalances(balances, c.chain, d)
         ELSE IF ~CycleDone(c2) THEN balances
         ELSE IF c.kind = "onUpdate" THEN SetChainBalances(balances, c.chain, d)
         ELSE SetAllBalances(balances, d)
    /\ status' = IF CycleDone(c2) THEN SuccessStatus ELSE status
    /\ UNCHANGED <<mounted, userAddress, chainID, tokens>>

Returns(vals) ==
    \E i \in 1..Len(cycles) : \E k \in 1..Len(cycles[i].calls) :
        \/ \E v \in vals : GetBalancesReturns(i, k, "ok", v)
        \/ GetBalancesReturns(i, k, "err", 0)

(***************************************************************************)
(* The registry's triggers.  A trigger that fetches is one step up to its  *)
(* await and one step from the settled responses to its set_ call.         *)
(***************************************************************************)
NewFetch(kind, uris) == [kind |-> kind, uris |-> uris, chain |-> safeChainID,
                         done |-> FALSE, failed |-> {}, threw |-> FALSE, order |-> 0]

\* the trigger of the 'extraTokens' slot, which awaits nothing
CustomTrigger(custom) ==
    IF extraTokens.defined /\ Len(extraTokens.value) > 0
    THEN (IF legacy THEN BuildLegacy(extraTokens.value, safeChainID)
                    ELSE BuildTokens("custom", extraTokens.value))
    ELSE custom

RegMount ==
    /\ Len(fetches) = 0
    /\ fetches' = <<NewFetch("base", lists), NewFetch("extra", extraTokenlist)>>
    /\ tokenListCustom' = CustomTrigger(tokenListCustom)
    /\ aggregated' = IF tokenListCustom' = tokenListCustom /\ ~(extraTokens.defined /\ Len(extraTokens.value) > 0)
                     THEN aggregated
                     ELSE Memo(tokenList, tokenListExtra, tokenListCustom')
    /\ UNCHANGED <<legacy, safeChainID, lists, docs, extraTokenlist, extraTokens,
                   tokenList, tokenListExtra, added>>
    /\ UNCHANGED <<hookVars, walletVars, appVars>>

\* how many of the started fetches have settled
Settled == Cardinality({j \in 1..Len(fetches) : fetches[j].done})

\* a provider with one state for both triggers: the fetch that settles last
\* sets what the registry holds of the lists
FetchSettlesShared(i, failed) ==
    LET f     == fetches[i]
        toks  == Fulfilled(f.uris, failed, 1)
        threw == TriggerThrows(f.uris, failed)
        built == IF legacy THEN BuildLegacy(toks, f.chain) ELSE BuildTokens(f.kind, toks)
    IN
    /\ ~f.done
    /\ fetches' = [fetches EXCEPT ![i] = [f EXCEPT !.done = TRUE, !.failed = failed,
                                                  !.threw = threw, !.order = Settled + 1]]
    /\ IF threw THEN UNCHANGED <<tokenList, tokenListExtra>>
       ELSE tokenList' = built /\ tokenListExtra' = EmptyMap
    /\ aggregated' = IF threw THEN aggregated
                     ELSE Memo(tokenList', tokenListExtra', tokenListCustom)
    /\ UNCHANGED <<legacy, safeChainID, lists, docs, extraTokenlist, extraTokens,
                   tokenListCustom, added>>
    /\ UNCHANGED <<hookVars, walletVars, appVars>>

\* Promise.allSettled has settled: the URIs of `failed` were rejected.  The
\* set_ call replaces the state and the memo is computed again, unless the
\* trigger threw before it.
FetchSettles(i, failed) ==
    LET f     == fetches[i]
        toks  == Fulfilled(f.uris, failed, 1)
        threw == TriggerThrows(f.uris, failed)
        built == IF legacy THEN BuildLegacy(toks, f.chain) ELSE BuildTokens(f.kind, toks)
    IN
    /\ ~f.done
    /\ fetches' = [fetches EXCEPT ![i] = [f EXCEPT !.done = TRUE, !.failed = failed,
                                                  !.threw = threw, !.order = Settled + 1]]
    /\ IF threw THEN UNCHANGED <<tokenList, tokenListExtra>>
       ELSE IF f.kind = "base"
       THEN tokenList' = built /\ UNCHANGED tokenListExtra
       ELSE tokenListExtra' = built /\ UNCHANGED tokenList
    /\ aggregated' = IF threw THEN aggregated
                     ELSE Memo(tokenList', tokenListExtra', tokenListCustom)
    /\ UNCHANGED <<legacy, safeChainID, lists, docs, extraTokenlist, extraTokens,
                   tokenListCustom, added>>
    /\ UNCHANGED <<hookVars, walletVars, appVars>>

\* props.lists changes: hashList changes and the trigger of the base lists
\* runs again, while its earlier runs go on
SetLists(l) ==
    /\ Len(fetches) > 0
    /\ l # lists
    /\ lists' = l
    /\ fetches' = Append(fetches, NewFetch("base", l))
    /\ UNCHANGED <<legacy, safeChainID, docs, extraTokenlist, extraTokens, tokenList,
                   tokenListExtra, tokenListCustom, aggregated, added>>
    /\ UNCHANGED <<hookVars, walletVars, appVars>>

\* the storage slot 'extraTokenlists' changes: the trigger of the user-added
\* lists runs again
SetExtraTokenlist(l) ==
    /\ Len(fetches) > 0
    /\ l # extraTokenlist
    /\ extraTokenlist' = l
    /\ fetches' = Append(fetches, NewFetch("extra", l))
    /\ UNCHANGED <<legacy, safeChainID, lists, docs, extraTokens, tokenList,
                   tokenListExtra, tokenListCustom, aggregated, added>>
    /\ UNCHANGED <<hookVars, walletVars, appVars>>

\* safeChainID changes.  The triggers of the single-chain version depend on
\* it and run again: [hashList, safeChainID], [extraTokenlist, safeChainID],
\* [extraTokens, safeChainID]; those of the multichain version do not.
SetSafeChainID(c) ==
    /\ Len(fetches) > 0
    /\ c # safeChainID
    /\ safeChainID' = c
    /\ IF legacy
       THEN /\ fetches' = fetches \o <<[NewFetch("base", lists) EXCEPT !.chain = c],
                                        [NewFetch("extra", extraTokenlist) EXCEPT !.chain = c]>>
            /\ IF extraTokens.defined /\ Len(extraTokens.value) > 0
               THEN /\ tokenListCustom' = BuildLegacy(extraTokens.value, c)
                    /\ aggregated' = Memo(tokenList, tokenListExtra, tokenListCustom')
               ELSE UNCHANGED <<tokenListCustom, aggregated>>
       ELSE UNCHANGED <<fetches, tokenListCustom, aggregated>>
    /\ UNCHANGED <<legacy, lists, docs, extraTokenlist, extraTokens, tokenList,
                   tokenListExtra, added>>
    /\ UNCHANGED <<hookVars, walletVars, appVars>>

\* addCustomToken: previous[token.chainID][toAddress(token.address)] = token;
\* return previous.  The state keeps its reference, so nothing renders and
\* the memo is not computed again.
AddCustomToken(t) ==
    /\ ~legacy
    /\ Len(fetches) > 0
    /\ tokenListCustom' =
          Spread(tokenListCustom,
                 t.chainID :> Spread(Get(tokenListCustom, t.chainID), toAddress(t.address) :> t))
    /\ added' = added \cup {t}
    /\ UNCHANGED <<legacy, safeChainID, lists, docs, extraTokenlist, extraTokens,
                   tokenList, tokenListExtra, fetches, aggregated>>
    /\ UNCHANGED <<hookVars, walletVars, appVars>>

(***************************************************************************)
(* The wallet context (WalletContextApp).  It hands availableTokens to the *)
(* balance hook and calls the hook's onUpdate and onUpdateSome.            *)
(***************************************************************************)
\* the address that stands for the chain's native coin
ETH_TOKEN_ADDRESS == 30

\* getNetwork(chain).contracts.wrappedToken is defined
hasWrappedToken(chain) == chain = 1

\* useLocalStorageValue('extraTokens', {defaultValue: []}).value
storedExtraTokens == IF extraTokens.defined THEN extraTokens.value ELSE << >>

\* a TToken as a token of a token list: the chain goes to `chainId`
toTokenListToken(t) == TokenDoc(t.address, t.chainID, "STORED")

\* a token of a token list as a TToken: the chain is read from `chainId`
toTToken(t) == Token(t.address, t.chainId)

\* useMemo: Object.values(currentNetworkTokenList) with normalized
\* addresses, then the native coin if the chain has a wrapped token
availableTokens(list, chain) ==
    LET fromList == [i \in 1..Len(list) |-> Token(toAddress(list[i].address), list[i].chainID)]
    IN IF hasWrappedToken(chain)
       THEN Append(fromList, Token(toAddress(ETH_TOKEN_ADDRESS), chain))
       ELSE fromList

\* one call of onRefresh or onRefreshWithList: the list and the subset it
\* was given, the flag, the stored tokens its closure holds, the cycle of
\* the hook it awaits (0: none), and the balances it returned at once
NewRefresh(kind, list, subset, save, cycle) ==
    [kind |-> kind, list |-> list, subset |-> subset, save |-> save,
     extra |-> storedExtraTokens, cycle |-> cycle, returned |-> cycle = 0,
     value |-> EmptyMap]

\* saveExtraTokens([...(extraTokens || []), ...tokenToUpdate.map(toTokenListToken)])
SavedBy(r) ==
    [defined |-> TRUE,
     value |-> r.extra \o [i \in 1..Len(r.subset) |-> toTokenListToken(r.subset[i])]]

\* a continuation that saves every subset, whatever the flag
ResumeAndSave(rs, i) ==
    LET done == {j \in 1..Len(rs) : /\ rs[j].cycle = i
                                    /\ ~rs[j].returned
                                    /\ CycleDone(cycles'[i])}
        save == {j \in done : Len(rs[j].subset) > 0}
    IN
    /\ refreshes' = [j \in 1..Len(rs) |->
                        IF j \in done THEN [rs[j] EXCEPT !.returned = TRUE] ELSE rs[j]]
    /\ IF save # {}
       THEN extraTokens' = SavedBy(rs[CHOOSE j \in save : TRUE])
       ELSE UNCHANGED extraTokens

\* what follows `await onUpdateSome(...)` or `await onUpdate()` in the calls
\* `rs` once cycle i of the hook has completed
Resume(rs, i) ==
    LET done == {j \in 1..Len(rs) : /\ rs[j].cycle = i
                                    /\ ~rs[j].returned
                                    /\ CycleDone(cycles'[i])}
        save == {j \in done : rs[j].save /\ Len(rs[j].subset) > 0}
    IN
    /\ refreshes' = [j \in 1..Len(rs) |->
                        IF j \in done THEN [rs[j] EXCEPT !.returned = TRUE] ELSE rs[j]]
    /\ IF save # {}
       THEN extraTokens' = SavedBy(rs[CHOOSE j \in save : TRUE])
       ELSE UNCHANGED extraTokens

onRefresh(kind, list, tokenToUpdate, shouldSaveInStorage) ==
    LET n == Len(cycles) + 1 IN
    /\ mounted
    /\ IF Len(tokenToUpdate) > 0
       THEN /\ CallOnUpdateSome(tokenToUpdate)
            /\ Resume(Append(refreshes,
                             NewRefresh(kind, list, tokenToUpdate, shouldSaveInStorage, n)), n)
       ELSE IF Len(NonZero(tokens)) # 0
       THEN /\ CallOnUpdate
            /\ Resume(Append(refreshes,
                             NewRefresh(kind, list, tokenToUpdate, shouldSaveInStorage, n)), n)
       ELSE /\ UNCHANGED hookVars
            /\ refreshes' = Append(refreshes,
                                   NewRefresh(kind, list, tokenToUpdate, shouldSaveInStorage, 0))
            /\ UNCHANGED extraTokens
    /\ UNCHANGED <<legacy, safeChainID, lists, docs, extraTokenlist, tokenList,
                   tokenListExtra, tokenListCustom, fetches, aggregated, added, triggered>>

\* every token of the list, known or not
tokensUnfiltered(newTokenList, available) ==
    [i \in 1..Len(newTokenList) |->
        Token(toAddress(newTokenList[i].address), newTokenList[i].chainID)]

\* tokens.filter(token => !availableTokens.find(t => t.address === token.address))
tokensToFetch(newTokenList, available) ==
    LET toks == [i \in 1..Len(newTokenList) |->
                    Token(toAddress(newTokenList[i].address), newTokenList[i].chainID)]
    IN SelectSeq(toks, LAMBDA t : \A i \in 1..Len(available) : available[i].address # t.address)

onRefreshWithList(newTokenList) ==
    LET toFetch == tokensToFetch(newTokenList, tokens) IN
    IF Len(toFetch) > 0
    THEN onRefresh("onRefreshWithList", newTokenList, toFetch, FALSE)
    ELSE /\ mounted
         /\ refreshes' = Append(refreshes,
                                [NewRefresh("onRefreshWithList", newTokenList, toFetch, FALSE, 0)
                                    EXCEPT !.value = balances])
         /\ UNCHANGED <<hookVars, regVars, triggered>>

\* the trigger's dependencies have changed since it ran
TriggerDue ==
    mounted /\ (~triggered.ran \/ triggered.extra # storedExtraTokens)

\* useAsyncTrigger(..., [address, extraTokens, onUpdateSome]): it runs with
\* the render that follows the mount or a write of the storage slot
WalletTrigger ==
    /\ TriggerDue
    /\ triggered' = [ran |-> TRUE, extra |-> storedExtraTokens]
    /\ IF ~isZeroAddress(userAddress)
       THEN CallOnUpdateSome([i \in 1..Len(storedExtraTokens) |-> toTToken(storedExtraTokens[i])])
       ELSE UNCHANGED hookVars
    /\ UNCHANGED <<regVars, refreshes>>

\* a call of the balance service returns to the hook, and the hook to the
\* wallet callback that awaits it
WalletReturns(vals) ==
    \E i \in 1..Len(cycles) : \E k \in 1..Len(cycles[i].calls) :
        /\ \/ \E v \in vals : GetBalancesReturns(i, k, "ok", v)
           \/ GetBalancesReturns(i, k, "err", 0)
        /\ Resume(refreshes, i)
        /\ UNCHANGED <<legacy, safeChainID, lists, docs, extraTokenlist, tokenList,
                       tokenListExtra, tokenListCustom, fetches, aggregated, added, triggered>>

\* The registry whose inputs change while its lists are fetched.
ChangedLists == { <<"base1">>, <<"base2">> }

ChangedExtraLists == { <<"extra1">>, <<"extra2">> }

InitRegChange ==
    /\ InitHook
    /\ userAddress = Undefined
    /\ chainID = 1
    /\ tokens = << >>
    /\ NoWallet
    /\ NoApp
    /\ InitRegistry
    /\ legacy \in BOOLEAN
    /\ safeChainID \in Chains
    /\ lists \in ChangedLists
    /\ extraTokenlist \in ChangedExtraLists
    /\ docs = [u \in {"base1", "base2", "extra1", "extra2"} |->
                 CASE u = "base1" -> Document(<<TokenDoc(10, 1, "BASE"), TokenDoc(12, 2, "BASE")>>)
                   [] u = "base2" -> Document(<<TokenDoc(14, 1, "OTHER"), TokenDoc(16, 2, "OTHER")>>)
                   [] u = "extra1" -> Document(<<TokenDoc(10, 1, "EXTRA")>>)
                   [] u = "extra2" -> Document(<<TokenDoc(18, 2, "EXTRA2")>>)]
    /\ \/ extraTokens = [defined |-> FALSE, value |-> << >>]
       \/ extraTokens = [defined |-> TRUE,
                         value |-> <<TokenDoc(20, 1, "CUSTOM"), TokenDoc(22, 2, "CUSTOM")>>]

\* The inputs of the wallet context.
\* the values of currentNetworkTokenList on a chain, as the lists spell them
NetworkLists(chain) == { << >>, <<Token(11, chain), Token(12, chain)>> }

\* the subsets passed to onRefresh; the empty one stands for no subset
RefreshSubsets == { << >>, <<Token(16, 1)>>, <<Token(12, 1), Token(18, 2)>> }

\* the values of the lists passed to onRefreshWithList
NewTokenLists ==
    { <<Token(10, 1), Token(13, 1)>>,
      <<Token(13, 1), Token(12, 2), Token(16, 1)>>,
      <<Token(31, 1)>> }

InitWallet ==
    /\ InitHook
    /\ NoRegistry
    /\ NoWallet
    /\ NoApp
    /\ userAddress \in {Undefined, 2}
    /\ chainID \in Chains
    /\ \E l \in NetworkLists(chainID) : tokens = availableTokens(l, chainID)

(***************************************************************************)
(* useBridge: the quote.  An invocation of onRetrieveQuote is              *)
(* [input, id, pc, outcome]: the props its closure holds, the identifier   *)
(* it computed, the await it is at, and how it ended.                      *)
(***************************************************************************)
\* the sets of props under which every field is present
QuoteInputs == {1, 2}

\* createUniqueID(serialize(config)): a hash of the serialized config
createUniqueID(config) == 1000 + 7 * config

\* the LiFiStep getContractCallsQuote returns to invocation i
QuoteOf(i) == [input |-> quotes[i].input, call |-> i]

NewQuote(input) ==
    [input |-> input, id |-> createUniqueID(input), pc |-> "getQuote", outcome |-> "pending"]

\* a re-render with other props
SetBridgeInput(c) ==
    /\ c # bridgeInput
    /\ bridgeInput' = c
    /\ UNCHANGED <<uniqueIdentifier, isFetchingQuote, latestQuote, quotes>>

\* onRetrieveQuote up to `await getQuote(quoteRequest)`
onRetrieveQuote ==
    IF bridgeInput = 0
    THEN /\ quotes' = Append(quotes, [NewQuote(0) EXCEPT !.pc = "done", !.outcome = "returned early"])
         /\ UNCHANGED <<bridgeInput, uniqueIdentifier, isFetchingQuote, latestQuote>>
    ELSE /\ quotes' = Append(quotes, NewQuote(bridgeInput))
         /\ uniqueIdentifier' = createUniqueID(bridgeInput)
         /\ isFetchingQuote' = TRUE
         /\ UNCHANGED <<bridgeInput, latestQuote>>

\* `await getQuote(quoteRequest)` returns or throws; then
\* `if (uniqueIdentifier.current !== currentIdentifier) return;` and the
\* invocation goes on to `await getContractCallsQuote(...)`
GetQuoteReturns(i, ok) ==
    /\ quotes[i].pc = "getQuote"
    /\ quotes' = [quotes EXCEPT ![i] =
                    IF ~ok THEN [@ EXCEPT !.pc = "done", !.outcome = "threw"]
                    ELSE IF uniqueIdentifier # quotes[i].id
                    THEN [@ EXCEPT !.pc = "done", !.outcome = "superseded"]
                    ELSE [@ EXCEPT !.pc = "getContractCallsQuote"]]
    /\ UNCHANGED <<bridgeInput, uniqueIdentifier, isFetchingQuote, latestQuote>>

\* `await getContractCallsQuote(...)` returns a quote, returns a step
\* without an action, or throws; what follows up to the return
GetContractCallsQuoteReturns(i, res) ==
    /\ quotes[i].pc = "getContractCallsQuote"
    /\ quotes' = [quotes EXCEPT ![i] = [@ EXCEPT !.pc = "done", !.outcome = res]]
    /\ isFetchingQuote' = FALSE
    /\ latestQuote' = IF res = "quote" THEN QuoteOf(i) ELSE NoQuote
    /\ UNCHANGED <<bridgeInput, uniqueIdentifier>>

QuoteResults == {"quote", "no action", "failed"}

\* useBridge mounted with complete props
InitBridgeQuotes ==
    /\ InitHook
    /\ NoRegistry
    /\ NoWallet
    /\ userAddress = 2
    /\ chainID = 1
    /\ tokens = << >>
    /\ InitBridge
    /\ bridgeInput \in QuoteInputs
    /\ NoVault
    /\ NoUtil

(***************************************************************************)
(* useVaultWithdraw and useVaultDeposit.  A call of onWithdraw or          *)
(* onDeposit is [op, pc, txs, end, value, onSuccess, onFailure, shares,    *)
(* at, args, wallet]: the await it is at, the transactions it has          *)
(* submitted, how it ended, what it returned, how often it has called each *)
(* callback, the share amounts the vault reported to it, the await it      *)
(* ended after, the args its closure holds, and what toWagmiProvider gave  *)
(* it.                                                                     *)
(***************************************************************************)
\* the denominator of minOutSlippage and redeemTolerance
BasisPoints == 10000

\* a string that is an address and not the zero address
isAddress(a) == a # Undefined /\ ~isZeroAddress(a)

isEthAddress(a) == a # Undefined /\ toAddress(a) = toAddress(ETH_TOKEN_ADDRESS)

\* toBigInt(undefined) is 0n
toBigInt(x) == IF x = Undefined THEN 0 ELSE x

\* useMemo: canWithdraw; the version of src/hooks/useWithdraw.ts also asks
\* for a positive previewWithdraw
canWithdraw(args) ==
    IF args.version = "LEGACY"
    THEN isAddress(args.token) /\ isAddress(args.vault) /\ args.amount > 0
    ELSE IF isEthAddress(args.token) THEN FALSE
    ELSE IF ~isAddress(args.token) \/ ~isAddress(args.vault) THEN FALSE
    ELSE IF args.amount <= 0 \/ args.amount > toBigInt(args.max) THEN FALSE
    ELSE IF args.previews THEN args.preview # Undefined /\ toBigInt(args.preview) > 0
    ELSE TRUE

\* useMemo: canDeposit
canDeposit(args) ==
    IF args.version = "LEGACY"
    THEN /\ isAddress(args.token) /\ isAddress(args.vault) /\ args.amount > 0
         /\ toBigInt(args.limit) # 0 /\ args.limit >= args.amount
    ELSE IF isEthAddress(args.token) THEN FALSE
    ELSE IF ~isAddress(args.token) \/ ~isAddress(args.vault) THEN FALSE
    ELSE IF args.amount <= 0 \/ args.amount > toBigInt(args.max) THEN FALSE
    ELSE args.preview # Undefined /\ toBigInt(args.preview) > 0

NewVaultCall(op, pc) ==
    [op |-> op, pc |-> pc, txs |-> << >>, end |-> "running", value |-> FALSE,
     onSuccess |-> 0, onFailure |-> 0, shares |-> [asked |-> 0, available |-> 0],
     at |-> "start", args |-> vaultArgs, wallet |-> "unknown"]

\* the call returns v
Returned(call, v) ==
    [call EXCEPT !.pc = "done", !.end = "returned", !.value = v, !.at = call.pc]

\* the call's promise rejects
Threw(call) == [call EXCEPT !.pc = "done", !.end = "threw", !.at = call.pc]

\* the transaction a call submits
Tx(fn, amount) == [fn |-> fn, amount |-> amount]

Submit(call, pc, tx) == [call EXCEPT !.pc = pc, !.txs = Append(@, tx)]

\* a re-render with another amountToWithdraw or amountToDeposit
SetAmount(a) ==
    /\ vaultArgs.hook # "none"
    /\ a # vaultArgs.amount
    /\ vaultArgs' = [vaultArgs EXCEPT !.amount = a]
    /\ UNCHANGED <<isWithdrawing, isDepositing, vaultCalls>>

\* if (!canWithdraw) return false; set_isWithdrawing(true);
\* await toWagmiProvider(provider)
onWithdraw ==
    /\ vaultArgs.hook = "useVaultWithdraw"
    /\ IF ~canWithdraw(vaultArgs)
       THEN /\ vaultCalls' = Append(vaultCalls, Returned(NewVaultCall("onWithdraw", "start"), FALSE))
            /\ UNCHANGED isWithdrawing
       ELSE /\ vaultCalls' = Append(vaultCalls, NewVaultCall("onWithdraw", "toWagmiProvider"))
            /\ isWithdrawing' = TRUE
    /\ UNCHANGED <<vaultArgs, isDepositing>>

\* if (!canDeposit) return; set_isDepositing(true);
\* await toWagmiProvider(args.provider)
onDeposit ==
    /\ vaultArgs.hook = "useVaultDeposit"
    /\ IF ~canDeposit(vaultArgs)
       THEN /\ vaultCalls' = Append(vaultCalls, Returned(NewVaultCall("onDeposit", "start"), FALSE))
            /\ UNCHANGED isDepositing
       ELSE /\ vaultCalls' = Append(vaultCalls, NewVaultCall("onDeposit", "toWagmiProvider"))
            /\ isDepositing' = TRUE
    /\ UNCHANGED <<vaultArgs, isWithdrawing>>

\* the slippage and tolerance checks of the ERC-4626 path of onWithdraw
WithdrawArgsValid(args) ==
    /\ ~(args.minOutSlippage < 0 \/ args.minOutSlippage > BasisPoints)
    /\ ~(args.redeemTolerance < 0 \/ args.redeemTolerance > BasisPoints)

\* the checks of the router path of onDeposit
DepositOptionsValid(args) ==
    /\ ~(args.minOutSlippage < 0 \/ args.minOutSlippage > BasisPoints)
    /\ isAddress(args.routerAddress)

\* a continuation that goes on to the transaction whatever the provider
\* gave and whatever the slippage and tolerance are
WithdrawUnchecked(call, res) ==
    IF call.args.version = "LEGACY"
    THEN [call |-> Submit(call, "withdrawFromVault", Tx("withdraw (legacy)", call.args.amount)),
          flag |-> isWithdrawing]
    ELSE [call |-> [call EXCEPT !.pc = "readContracts"], flag |-> isWithdrawing]

\* onWithdraw from the return of toWagmiProvider to its next await
WithdrawAfterProvider(call, res) ==
    IF res = "throws" THEN [call |-> Threw(call), flag |-> isWithdrawing]
    ELSE IF res = "no address" THEN [call |-> Returned(call, FALSE), flag |-> FALSE]
    ELSE IF call.args.version = "LEGACY"
    THEN [call |-> Submit(call, "withdrawFromVault", Tx("withdraw (legacy)", call.args.amount)),
          flag |-> isWithdrawing]
    ELSE IF ~WithdrawArgsValid(call.args) THEN [call |-> Threw(call), flag |-> isWithdrawing]
    ELSE [call |-> [call EXCEPT !.pc = "readContracts"], flag |-> isWithdrawing]

\* onDeposit from the return of toWagmiProvider to its next await
DepositAfterProvider(call, res) ==
    IF res = "throws" THEN [call |-> Threw(call), flag |-> isDepositing]
    ELSE IF res = "no address" THEN [call |-> Returned(call, FALSE), flag |-> FALSE]
    ELSE IF call.args.version = "LEGACY" \/ ~call.args.options
    THEN [call |-> Submit(call, "depositToVault", Tx("deposit", call.args.amount)),
          flag |-> isDepositing]
    ELSE IF ~DepositOptionsValid(call.args) THEN [call |-> Threw(call), flag |-> isDepositing]
    ELSE [call |-> [call EXCEPT !.pc = "readContract"], flag |-> isDepositing]

\* `await toWagmiProvider(provider)` resolves with a wallet address,
\* resolves without one, or rejects
ToWagmiProviderReturns(i, res) ==
    /\ vaultCalls[i].pc = "toWagmiProvider"
    /\ IF vaultCalls[i].op = "onWithdraw"
       THEN LET r == WithdrawAfterProvider([vaultCalls[i] EXCEPT !.wallet = res], res) IN
            /\ vaultCalls' = [vaultCalls EXCEPT ![i] = r.call]
            /\ isWithdrawing' = r.flag
            /\ UNCHANGED isDepositing
       ELSE LET r == DepositAfterProvider([vaultCalls[i] EXCEPT !.wallet = res], res) IN
            /\ vaultCalls' = [vaultCalls EXCEPT ![i] = r.call]
            /\ isDepositing' = r.flag
            /\ UNCHANGED isWithdrawing
    /\ UNCHANGED vaultArgs

\* const tolerance = (availableShares * args.redeemTolerance) / 10000n;
\* const isAskingToWithdrawAll = availableShares - convertToShare < tolerance;
isAskingToWithdrawAll(convertToShare, availableShares, redeemTolerance) ==
    availableShares - convertToShare < (availableShares * redeemTolerance) \div BasisPoints

\* withdrawFrom4626Vault({amount: isAskingToWithdrawAll ? availableShares
\*   : args.amountToWithdraw, shouldUseRedeem: isAskingToWithdrawAll})
WithdrawTx(args, convertToShare, availableShares) ==
    IF isAskingToWithdrawAll(convertToShare, availableShares, args.redeemTolerance)
    THEN Tx("redeem", availableShares)
    ELSE Tx("withdraw", args.amount)

\* `await readContracts(retrieveConfig(), ...)` returns convertToShares and
\* balanceOf
ReadContractsReturns(i, convertToShare, availableShares) ==
    /\ vaultCalls[i].pc = "readContracts"
    /\ vaultCalls' = [vaultCalls EXCEPT ![i] =
            [Submit(@, "withdrawFrom4626Vault", WithdrawTx(@.args, convertToShare, availableShares))
                EXCEPT !.shares = [asked |-> convertToShare, available |-> availableShares]]]
    /\ UNCHANGED <<vaultArgs, isWithdrawing, isDepositing>>

\* `await readContract(retrieveConfig(), ... 'allowance' ...)` returns
ReadContractReturns(i) ==
    /\ vaultCalls[i].pc = "readContract"
    /\ vaultCalls' = [vaultCalls EXCEPT ![i] =
            Submit(@, "depositTo4626VaultViaRouter", Tx("router", @.args.amount))]
    /\ UNCHANGED <<vaultArgs, isWithdrawing, isDepositing>>

\* retrieveConfig() or the read throws
ReadThrows(i) ==
    /\ vaultCalls[i].pc \in {"readContracts", "readContract"}
    /\ vaultCalls' = [vaultCalls EXCEPT ![i] = Threw(@)]
    /\ UNCHANGED <<vaultArgs, isWithdrawing, isDepositing>>

\* result.isSuccessful ? onSuccess?.() : onFailure?.()
Called(call, ok) ==
    IF ok THEN [call EXCEPT !.onSuccess = @ + 1] ELSE [call EXCEPT !.onFailure = @ + 1]

\* the transaction call returns its TTxResponse; on the LEGACY path the
\* call then returns, on the ERC-4626 path it awaits the refetch
TxReturns(i, ok) ==
    /\ vaultCalls[i].pc \in {"withdrawFromVault", "withdrawFrom4626Vault",
                             "depositToVault", "depositTo4626VaultViaRouter"}
    /\ vaultCalls' = [vaultCalls EXCEPT ![i] =
            IF @.args.version = "LEGACY"
            THEN Returned(Called(@, ok), ok)
            ELSE [Called(@, ok) EXCEPT !.pc = "refetch", !.value = ok]]
    /\ UNCHANGED <<vaultArgs, isWithdrawing, isDepositing>>

\* await refetchMaxWithdrawForUser() (and refetchBalanceOf());
\* set_isWithdrawing(false); return result.isSuccessful
RefetchReturns(i) ==
    /\ vaultCalls[i].pc = "refetch"
    /\ vaultCalls' = [vaultCalls EXCEPT ![i] = Returned(@, @.value)]
    /\ IF vaultCalls[i].op = "onWithdraw"
       THEN isWithdrawing' = FALSE /\ UNCHANGED isDepositing
       ELSE isDepositing' = FALSE /\ UNCHANGED isWithdrawing
    /\ UNCHANGED vaultArgs

\* the amounts a user may enter
VaultAmounts == {0, 5, 8}

\* the share amounts convertToShares and balanceOf may report
ShareValues == {50, 19900, 20000}

\* the args of useVaultWithdraw: a LEGACY vault, an ERC-4626 vault with
\* each token, amount and preview, and one with each slippage and tolerance
WithdrawArgs ==
    {[hook |-> "useVaultWithdraw", version |-> "LEGACY", token |-> t, vault |-> 20,
      amount |-> a, max |-> Undefined, preview |-> Undefined, previews |-> TRUE,
      minOutSlippage |-> Undefined, redeemTolerance |-> Undefined] :
        t \in {12, Undefined}, a \in {0, 5}}
    \cup
    {[hook |-> "useVaultWithdraw", version |-> "ERC-4626", token |-> t, vault |-> 20,
      amount |-> a, max |-> 5, preview |-> p, previews |-> b,
      minOutSlippage |-> 100, redeemTolerance |-> 100] :
        t \in {12, ETH_TOKEN_ADDRESS, Undefined}, a \in VaultAmounts, p \in {Undefined, 5},
        b \in BOOLEAN}
    \cup
    {[hook |-> "useVaultWithdraw", version |-> "ERC-4626", token |-> 12, vault |-> 20,
      amount |-> 5, max |-> 5, preview |-> 5, previews |-> TRUE,
      minOutSlippage |-> s, redeemTolerance |-> r] :
        s \in {-1, 0, BasisPoints, BasisPoints + 1},
        r \in {-1, 0, 100, BasisPoints, BasisPoints + 1}}

\* the args of useVaultDeposit
DepositArgs ==
    {[hook |-> "useVaultDeposit", version |-> "LEGACY", token |-> t, vault |-> 20,
      amount |-> a, max |-> Undefined, preview |-> Undefined, limit |-> l,
      options |-> FALSE, minOutSlippage |-> Undefined, routerAddress |-> Undefined] :
        t \in {12, Undefined}, a \in {0, 5}, l \in {Undefined, 3, 5}}
    \cup
    {[hook |-> "useVaultDeposit", version |-> "ERC-4626", token |-> t, vault |-> 20,
      amount |-> a, max |-> 5, preview |-> p, limit |-> Undefined,
      options |-> FALSE, minOutSlippage |-> Undefined, routerAddress |-> Undefined] :
        t \in {12, ETH_TOKEN_ADDRESS, Undefined}, a \in VaultAmounts, p \in {Undefined, 5}}
    \cup
    {[hook |-> "useVaultDeposit", version |-> "ERC-4626", token |-> 12, vault |-> 20,
      amount |-> 5, max |-> 5, preview |-> 5, limit |-> Undefined,
      options |-> TRUE, minOutSlippage |-> s, routerAddress |-> r] :
        s \in {-1, 100, BasisPoints + 1}, r \in {Undefined, 40}}

\* one of the two vault hooks mounted with its args
InitVaultHooks ==
    /\ InitHook
    /\ NoRegistry
    /\ NoWallet
    /\ userAddress = 2
    /\ chainID = 1
    /\ tokens = << >>
    /\ NoBridge
    /\ InitVault
    /\ vaultArgs \in WithdrawArgs \cup DepositArgs
    /\ NoUtil

(***************************************************************************)
(* usePortals and useBridge: onExecuteDeposit.                             *)
(***************************************************************************)
\* TTxResponse, as far as onExecuteDeposit reads it: which fields are set
TxResponse(isSuccessful, receipt, err) ==
    [isSuccessful |-> isSuccessful, receipt |-> receipt, error |-> err]

NewExecution(pc) ==
    [hook |-> executeProps.hook, pc |-> pc, end |-> "running", value |-> FALSE,
     onSuccess |-> 0, onFailure |-> 0, at |-> "start",
     isWalletSafe |-> executeProps.isWalletSafe]

\* the four asserts at the top of execute and of onExecuteForGnosis
ExecuteAsserts(props) ==
    props.provider /\ props.latestQuote /\ props.inputToken /\ props.outputToken

\* assert(provider); set_isDepositing(true); await execute() or
\* await onExecuteForGnosis(), up to the first await of the callee
onExecuteDeposit ==
    /\ executeProps.hook # "none"
    /\ Len(executions) < MaxExecutions
    /\ IF ~executeProps.provider
       THEN /\ executions' = Append(executions, Threw(NewExecution("assert")))
            /\ UNCHANGED isDepositingOf
       ELSE /\ isDepositingOf' = TRUE
            /\ executions' = Append(executions,
                 IF ~ExecuteAsserts(executeProps) THEN Threw(NewExecution("execute"))
                 ELSE IF executeProps.hook = "usePortals"
                      THEN NewExecution("getPortalsTx")
                      ELSE NewExecution("transaction"))
    /\ UNCHANGED executeProps

\* usePortals.onExecuteDeposit from the status on
PortalsAfterExecute(call, txStatus) ==
    /\ executions' = [executions EXCEPT ![call] =
         Returned(IF txStatus.isSuccessful /\ txStatus.receipt
                  THEN [@ EXCEPT !.onSuccess = @ + 1]
                  ELSE [@ EXCEPT !.onFailure = @ + 1], txStatus.isSuccessful)]
    /\ isDepositingOf' = FALSE

\* useBridge.onExecuteDeposit from the status on: status.error is read
\* without a guard
BridgeAfterExecute(call, txStatus) ==
    /\ isDepositingOf' = FALSE
    /\ executions' = [executions EXCEPT ![call] =
         IF txStatus.isSuccessful /\ txStatus.receipt
         THEN Returned([@ EXCEPT !.onSuccess = @ + 1], TRUE)
         ELSE IF ~txStatus.error THEN Threw(@)
         ELSE Returned([@ EXCEPT !.onFailure = @ + 1], FALSE)]

AfterExecute(call, txStatus) ==
    IF executions[call].hook = "usePortals"
    THEN PortalsAfterExecute(call, txStatus)
    ELSE BridgeAfterExecute(call, txStatus)

PortalsTxResults == {"result", "no result", "throws"}

\* await getPortalsTx(...) settles: inside the try of execute, before the
\* try of onExecuteForGnosis
GetPortalsTxReturns(i, res) ==
    /\ i \in DOMAIN executions
    /\ executions[i].pc = "getPortalsTx"
    /\ IF res = "result"
       THEN /\ executions' = [executions EXCEPT ![i].pc =
                 IF executions[i].isWalletSafe THEN "send" ELSE "transaction"]
            /\ UNCHANGED isDepositingOf
       ELSE IF executions[i].isWalletSafe
       THEN /\ executions' = [executions EXCEPT ![i] = Threw(@)]
            /\ UNCHANGED isDepositingOf
       ELSE AfterExecute(i, TxResponse(FALSE, FALSE, res = "throws"))
    /\ UNCHANGED executeProps

ExecuteOutcomes == {"success", "reverted", "switch failed", "threw"}

\* what the try block of execute returns for each way its awaits
\* (toWagmiProvider, switchChain, sendTransaction,
\* waitForTransactionReceipt) can settle
ExecuteStatus(hook, outcome) ==
    IF outcome = "success" THEN TxResponse(TRUE, TRUE, FALSE)
    ELSE IF outcome = "switch failed" THEN TxResponse(FALSE, FALSE, TRUE)
    ELSE IF outcome = "reverted" THEN TxResponse(FALSE, hook = "useBridge", FALSE)
    ELSE TxResponse(FALSE, FALSE, FALSE)

\* the awaits of the try block of execute settle and onExecuteDeposit
\* resumes with the status
ExecuteReturns(i, outcome) ==
    /\ i \in DOMAIN executions
    /\ executions[i].pc = "transaction"
    /\ AfterExecute(i, ExecuteStatus(executions[i].hook, outcome))
    /\ UNCHANGED executeProps

\* await sdk.txs.send({txs: batch}) settles and onExecuteDeposit resumes
SafeSendReturns(i, ok) ==
    /\ i \in DOMAIN executions
    /\ executions[i].pc = "send"
    /\ AfterExecute(i, TxResponse(ok, ok, ~ok))
    /\ UNCHANGED executeProps

ExecuteProps ==
    {[hook |-> h, provider |-> p, latestQuote |-> q, inputToken |-> t,
      outputToken |-> o, isWalletSafe |-> s] :
        h \in {"usePortals", "useBridge"}, p \in BOOLEAN, q \in BOOLEAN,
        t \in BOOLEAN, o \in BOOLEAN, s \in BOOLEAN}

\* usePortals or useBridge mounted; only usePortals reads isWalletSafe
InitExecutions ==
    /\ InitHook
    /\ NoRegistry
    /\ NoWallet
    /\ userAddress = 2
    /\ chainID = 1
    /\ tokens = << >>
    /\ NoBridge
    /\ NoVault
    /\ InitExecute
    /\ executeProps \in {p \in ExecuteProps : p.hook = "useBridge" => ~p.isWalletSafe}
    /\ transfers = << >>
    /\ InitConfig

(***************************************************************************)
(* transferEther.                                                          *)
(***************************************************************************)
NewTransfer(pc) ==
    [pc |-> pc, end |-> "running", value |-> FALSE, at |-> "start",
     reported |-> << >>, timer |-> "none"]

\* props.statusHandler?.({...defaultTxStatus, [s]: true}); "default" is
\* defaultTxStatus itself
Report(call, s) == [call EXCEPT !.reported = Append(@, s)]

\* finally { setTimeout(() => props.statusHandler?.({...defaultTxStatus}), 3000) }
SetTimer(call) == [call EXCEPT !.timer = "set"]

\* assertAddress(props.receiverAddress); the pending status;
\* await toWagmiProvider(props.connector)
transferEther(receiverIsAddress) ==
    /\ Len(transfers) < MaxTransfers
    /\ transfers' = Append(transfers,
         IF ~receiverIsAddress THEN Threw(NewTransfer("assertAddress"))
         ELSE Report(NewTransfer("toWagmiProvider"), "pending"))

\* await toWagmiProvider(props.connector) settles;
\* assertAddress(wagmiProvider.address, 'userAddress'); both before the try
TransferProviderReturns(i, res) ==
    /\ i \in DOMAIN transfers
    /\ transfers[i].pc = "toWagmiProvider"
    /\ transfers' = [transfers EXCEPT ![i] =
         IF res = "address" THEN [@ EXCEPT !.pc = "sendTransaction"]
         ELSE Threw(@)]

\* the catch block, then the finally block
TransferCaught(call) == SetTimer(Returned(Report(call, "error"), FALSE))

\* await sendTransaction(retrieveConfig(), ...) settles
SendTransactionReturns(i, ok) ==
    /\ i \in DOMAIN transfers
    /\ transfers[i].pc = "sendTransaction"
    /\ transfers' = [transfers EXCEPT ![i] =
         IF ok THEN [@ EXCEPT !.pc = "waitForTransactionReceipt"]
         ELSE TransferCaught(@)]

ReceiptResults == {"success", "reverted", "throws"}

\* await waitForTransactionReceipt(...) settles
ReceiptReturns(i, res) ==
    /\ i \in DOMAIN transfers
    /\ transfers[i].pc = "waitForTransactionReceipt"
    /\ transfers' = [transfers EXCEPT ![i] =
         IF res = "success" THEN SetTimer(Returned(Report(@, "success"), TRUE))
         ELSE IF res = "reverted" THEN SetTimer(Returned(Report(@, "error"), FALSE))
         ELSE TransferCaught(@)]

\* the callback of setTimeout runs
TimerFires(i) ==
    /\ i \in DOMAIN transfers
    /\ transfers[i].timer = "set"
    /\ transfers' = [transfers EXCEPT ![i] = [Report(@, "default") EXCEPT !.timer = "fired"]]

\* the module loaded, no call yet
InitTransfers ==
    /\ InitHook
    /\ NoRegistry
    /\ NoWallet
    /\ userAddress = 2
    /\ chainID = 1
    /\ tokens = << >>
    /\ NoBridge
    /\ NoVault
    /\ NoUtil

(***************************************************************************)
(* The configuration singleton: getConfig and retrieveConfig.              *)
(***************************************************************************)
\* the keys of indexedWagmiChains, cut down to two chains
SupportedChains == {1, 10}

\* getNetwork(chainID) returns; it throws 'Chain ... is not supported'
\* otherwise
getNetwork(c) == c \in SupportedChains

\* the object getDefaultConfig returns to the n-th call of the module: a new
\* object every time, told apart by the call that built it
BuildConfig(chains, n) == [set |-> TRUE, chains |-> chains, by |-> n]

\* every call builds and stores a configuration
AlwaysBuildConfig(config, chains, n) == BuildConfig(chains, n)

\* if (CONFIG) return CONFIG; ... CONFIG = config; return config
ConfigReturned(config, chains, n) ==
    IF config.set THEN config ELSE BuildConfig(chains, n)

ConfigCall(fn, chains, end, value) ==
    [fn |-> fn, chains |-> chains, end |-> end, value |-> value]

\* getConfig({chains}): the transports are built with getNetwork(chain.id)
\* for every chain, before CONFIG is assigned
getConfig(chains) ==
    /\ Len(configCalls) < MaxConfigCalls
    /\ LET n == Len(configCalls) + 1
           config == ConfigReturned(CONFIG, chains, n)
       IN IF ~CONFIG.set /\ \E c \in chains : ~getNetwork(c)
          THEN /\ configCalls' = Append(configCalls, ConfigCall("getConfig", chains, "threw", NoConfig))
               /\ UNCHANGED CONFIG
          ELSE /\ configCalls' = Append(configCalls, ConfigCall("getConfig", chains, "returned", config))
               /\ CONFIG' = config

\* if (CONFIG) return CONFIG; throw new Error('Config not set')
retrieveConfig ==
    /\ Len(configCalls) < MaxConfigCalls
    /\ configCalls' = Append(configCalls,
         IF CONFIG.set THEN ConfigCall("retrieveConfig", {}, "returned", CONFIG)
         ELSE ConfigCall("retrieveConfig", {}, "threw", NoConfig))
    /\ UNCHANGED CONFIG

\* the chain lists callers pass: supportedChains of WithMom, with chains the
\* library knows and one it does not
ChainLists == SUBSET {1, 10, 999} \ {{}}

\* the module loaded, no call yet
InitConfigModule ==
    /\ InitHook
    /\ NoRegistry
    /\ NoWallet
    /\ userAddress = 2
    /\ chainID = 1
    /\ tokens = << >>
    /\ NoBridge
    /\ NoVault
    /\ NoUtil

(***************************************************************************)
(* Specifications.                                                         *)
(***************************************************************************)
Next ==
    \/ Mount /\ UNCHANGED <<regVars, walletVars, appVars>>
    \/ /\ Len(cycles) < MaxCycles
       /\ \E a \in Accounts : SetAccount(a)
       /\ UNCHANGED <<regVars, walletVars, appVars>>
    \/ /\ Len(cycles) < MaxCycles
       /\ \E c \in Chains : SetChain(c)
       /\ UNCHANGED <<regVars, walletVars, appVars>>
    \/ /\ Len(cycles) < MaxCycles
       /\ \E l \in TokenLists : SetTokens(l)
       /\ UNCHANGED <<regVars, walletVars, appVars>>
    \/ /\ Len(cycles) < MaxCycles
       /\ CallOnUpdate
       /\ UNCHANGED <<regVars, walletVars, appVars>>
    \/ /\ Len(cycles) < MaxCycles
       /\ \E l \in SomeLists : CallOnUpdateSome(l)
       /\ UNCHANGED <<regVars, walletVars, appVars>>
    \/ Returns(Values) /\ UNCHANGED <<regVars, walletVars, appVars>>

Spec == Init /\ [][Next]_vars

NextBatch ==
    \/ Mount /\ UNCHANGED <<regVars, walletVars, appVars>>
    \/ /\ Len(cycles) < MaxBatchCycles
       /\ CallOnUpdate
       /\ UNCHANGED <<regVars, walletVars, appVars>>
    \/ /\ Len(cycles) < MaxBatchCycles
       /\ CallOnUpdateSome(tokens)
       /\ UNCHANGED <<regVars, walletVars, appVars>>
    \/ Returns(BatchValues) /\ UNCHANGED <<regVars, walletVars, appVars>>

SpecBatch == InitBatch /\ [][NextBatch]_vars

NextReg ==
    \/ RegMount
    \/ \E i \in 1..Len(fetches) :
          \E failed \in SUBSET {fetches[i].uris[k] : k \in 1..Len(fetches[i].uris)} :
              FetchSettles(i, failed)
    \/ \E t \in CustomTokens : AddCustomToken(t)

SpecReg == InitReg /\ [][NextReg]_vars

NextRegChange ==
    \/ RegMount
    \/ \E i \in 1..Len(fetches) :
          \E failed \in SUBSET {fetches[i].uris[k] : k \in 1..Len(fetches[i].uris)} :
              FetchSettles(i, failed)
    \/ Len(fetches) < MaxFetches /\ \E l \in ChangedLists : SetLists(l)
    \/ Len(fetches) < MaxFetches /\ \E l \in ChangedExtraLists : SetExtraTokenlist(l)
    \/ Len(fetches) + 2 <= MaxFetches /\ \E c \in Chains : SetSafeChainID(c)

SpecRegChange == InitRegChange /\ [][NextRegChange]_vars

\* useBridge: props changing and quotes requested while earlier requests
\* are in flight
NextBridge ==
    \/ /\ \E c \in QuoteInputs \cup {0} : SetBridgeInput(c)
       /\ UNCHANGED <<hookVars, regVars, walletVars, vaultVars, utilVars>>
    \/ /\ Len(quotes) < MaxQuotes
       /\ onRetrieveQuote
       /\ UNCHANGED <<hookVars, regVars, walletVars, vaultVars, utilVars>>
    \/ /\ \E i \in 1..Len(quotes), ok \in BOOLEAN : GetQuoteReturns(i, ok)
       /\ UNCHANGED <<hookVars, regVars, walletVars, vaultVars, utilVars>>
    \/ /\ \E i \in 1..Len(quotes), res \in QuoteResults : GetContractCallsQuoteReturns(i, res)
       /\ UNCHANGED <<hookVars, regVars, walletVars, vaultVars, utilVars>>

SpecBridge == InitBridgeQuotes /\ [][NextBridge]_vars

\* the vault hooks: calls of onWithdraw or onDeposit, one possibly made
\* while another is in progress
NextVault ==
    \/ /\ \E a \in VaultAmounts : SetAmount(a)
       /\ UNCHANGED <<hookVars, regVars, walletVars, bridgeVars, utilVars>>
    \/ /\ Len(vaultCalls) < MaxVaultCalls
       /\ onWithdraw
       /\ UNCHANGED <<hookVars, regVars, walletVars, bridgeVars, utilVars>>
    \/ /\ Len(vaultCalls) < MaxVaultCalls
       /\ onDeposit
       /\ UNCHANGED <<hookVars, regVars, walletVars, bridgeVars, utilVars>>
    \/ /\ \E i \in 1..Len(vaultCalls), res \in {"address", "no address", "throws"} :
             ToWagmiProviderReturns(i, res)
       /\ UNCHANGED <<hookVars, regVars, walletVars, bridgeVars, utilVars>>
    \/ /\ \E i \in 1..Len(vaultCalls), c, a \in ShareValues : ReadContractsReturns(i, c, a)
       /\ UNCHANGED <<hookVars, regVars, walletVars, bridgeVars, utilVars>>
    \/ /\ \E i \in 1..Len(vaultCalls) : ReadContractReturns(i)
       /\ UNCHANGED <<hookVars, regVars, walletVars, bridgeVars, utilVars>>
    \/ /\ \E i \in 1..Len(vaultCalls) : ReadThrows(i)
       /\ UNCHANGED <<hookVars, regVars, walletVars, bridgeVars, utilVars>>
    \/ /\ \E i \in 1..Len(vaultCalls), ok \in BOOLEAN : TxReturns(i, ok)
       /\ UNCHANGED <<hookVars, regVars, walletVars, bridgeVars, utilVars>>
    \/ /\ \E i \in 1..Len(vaultCalls) : RefetchReturns(i)
       /\ UNCHANGED <<hookVars, regVars, walletVars, bridgeVars, utilVars>>

SpecVault == InitVaultHooks /\ [][NextVault]_vars

\* usePortals and useBridge: the calls of onExecuteDeposit
NextExecute ==
    \/ onExecuteDeposit
       /\ UNCHANGED <<hookVars, regVars, walletVars, bridgeVars, vaultVars, transfers, configVars>>
    \/ (\E i \in 1..MaxExecutions, res \in PortalsTxResults : GetPortalsTxReturns(i, res))
       /\ UNCHANGED <<hookVars, regVars, walletVars, bridgeVars, vaultVars, transfers, configVars>>
    \/ (\E i \in 1..MaxExecutions, outcome \in ExecuteOutcomes : ExecuteReturns(i, outcome))
       /\ UNCHANGED <<hookVars, regVars, walletVars, bridgeVars, vaultVars, transfers, configVars>>
    \/ (\E i \in 1..MaxExecutions, ok \in BOOLEAN : SafeSendReturns(i, ok))
       /\ UNCHANGED <<hookVars, regVars, walletVars, bridgeVars, vaultVars, transfers, configVars>>

SpecExecute == InitExecutions /\ [][NextExecute]_vars

\* the calls of transferEther and their timers
NextTransfer ==
    \/ (\E receiverIsAddress \in BOOLEAN : transferEther(receiverIsAddress))
       /\ UNCHANGED <<hookVars, regVars, walletVars, bridgeVars, vaultVars, executeVars, configVars>>
    \/ (\E i \in 1..MaxTransfers, res \in {"address", "no address", "throws"} :
          TransferProviderReturns(i, res))
       /\ UNCHANGED <<hookVars, regVars, walletVars, bridgeVars, vaultVars, executeVars, configVars>>
    \/ (\E i \in 1..MaxTransfers, ok \in BOOLEAN : SendTransactionReturns(i, ok))
       /\ UNCHANGED <<hookVars, regVars, walletVars, bridgeVars, vaultVars, executeVars, configVars>>
    \/ (\E i \in 1..MaxTransfers, res \in ReceiptResults : ReceiptReturns(i, res))
       /\ UNCHANGED <<hookVars, regVars, walletVars, bridgeVars, vaultVars, executeVars, configVars>>
    \/ (\E i \in 1..MaxTransfers : TimerFires(i))
       /\ UNCHANGED <<hookVars, regVars, walletVars, bridgeVars, vaultVars, executeVars, configVars>>

SpecTransfer == InitTransfers /\ [][NextTransfer]_vars

\* the calls into the configuration module
NextConfig ==
    \/ (\E chains \in ChainLists : getConfig(chains))
       /\ UNCHANGED <<hookVars, regVars, walletVars, bridgeVars, vaultVars, executeVars, transfers>>
    \/ retrieveConfig
       /\ UNCHANGED <<hookVars, regVars, walletVars, bridgeVars, vaultVars, executeVars, transfers>>

SpecConfig == InitConfigModule /\ [][NextConfig]_vars

NextWallet ==
    \/ Mount /\ UNCHANGED <<regVars, walletVars, appVars>>
    \/ WalletTrigger /\ UNCHANGED appVars
    \/ /\ ~TriggerDue
       /\ Len(refreshes) < MaxRefreshes
       /\ Len(cycles) + 2 <= MaxWalletCycles
       /\ \E s \in RefreshSubsets, save \in BOOLEAN : onRefresh("onRefresh", << >>, s, save)
       /\ UNCHANGED appVars
    \/ /\ ~TriggerDue
       /\ Len(refreshes) < MaxRefreshes
       /\ Len(cycles) + 1 <= MaxWalletCycles
       /\ \E l \in NewTokenLists : onRefreshWithList(l)
       /\ UNCHANGED appVars
    \/ ~TriggerDue /\ WalletReturns(BatchValues) /\ UNCHANGED appVars

SpecWallet == InitWallet /\ [][NextWallet]_vars

(***************************************************************************)
(* Properties of the balance hook.                                         *)
(***************************************************************************)
AllReturned == \A i \in 1..Len(cycles) : CycleDone(cycles[i])

\* the partial the k-th call of cycle i has returned
Partial(i, k) == getBalances(cycles[i].user, cycles[i].toks, cycles[i].calls[k])

\* C1: once every call has returned and the cache tracks the active account
\* (the last merge was one for the active account), no entry of the exposed
\* balances was fetched for another account.
C1_NoResidualEntries ==
    (mounted /\ AllReturned /\ data.nonce > 0 /\ data.address = toAddress(userAddress))
    => \A c \in DOMAIN balances : \A a \in DOMAIN balances[c] :
          balances[c][a].owner \in Accounts => balances[c][a].owner = toAddress(userAddress)

\* C2: every merge leaves the tracked owner equal to the supplied owner,
\* and a merge whose owner differs from the tracked owner leaves the cache
\* with exactly the keys of the merged partial.
C2_ResetOnOwnerChange ==
    [][/\ \A i \in 1..Len(cycles) : \A k \in 1..Len(cycles[i].calls) :
             (cycles[i].calls[k].st = "sent" /\ cycles'[i].calls[k].st # "sent")
             => data'.address = toAddress(cycles[i].user)
       /\ data'.address # data.address =>
            \E i \in 1..Len(cycles) : \E k \in 1..Len(cycles[i].calls) :
                /\ cycles[i].calls[k].st = "sent"
                /\ cycles'[i].calls[k].st # "sent"
                /\ LET raw == getBalances(cycles'[i].user, cycles'[i].toks, cycles'[i].calls[k])
                   IN /\ DOMAIN data'.balances = (IF DOMAIN raw = {} THEN {} ELSE {cycles[i].chain})
                      /\ DOMAIN Get(data'.balances, cycles[i].chain) = DOMAIN raw]_vars

\* C2 witness: the cache tracks account 4 and holds a partial merged for it
\* after a partial had been merged for account 2.
C2_Witness ==
    /\ data.address = 4
    /\ data.balances # EmptyMap
    /\ \E i \in 1..Len(cycles) : \E k \in 1..Len(cycles[i].calls) :
          cycles[i].user = 2 /\ cycles[i].calls[k].st = "ok"

\* C3: the nonce never decreases, and every merge leaves it strictly greater.
C3_NonceMonotonic ==
    [][data' # data => data'.nonce > data.nonce]_vars

\* C6 as stated: a lookup of a pair with no entry in the balances state
\* returns the zero-value balance and the default token.
C6_AbsentPairGivesDefault ==
    \A a \in LookupAddresses : \A c \in LookupChains :
        ~(c \in DOMAIN balances /\ a \in DOMAIN balances[c])
        => /\ getBalance(balances, a, c) = zeroNormalizedBN
           /\ getToken(balances, a, c) = DEFAULT_ERC20

\* C6 amended: a lookup never returns an absent value, and it returns the
\* zero-value balance and the default token for every pair with no entry
\* under the chain looked up, which is chain 1 when chainID is 0.
C6_SafeLookups ==
    \A a \in LookupAddresses : \A c \in LookupChains :
        /\ getBalance(balances, a, c) # Absent
        /\ getToken(balances, a, c) # Absent
        /\ ~(OrMainnet(c) \in DOMAIN balances /\ a \in DOMAIN balances[OrMainnet(c)])
           => /\ getBalance(balances, a, c) = zeroNormalizedBN
              /\ getToken(balances, a, c) = DEFAULT_ERC20

\* C6 witness: the balances state holds an entry for one address of chain 1
\* and none for another address that is looked up.
C6_Witness ==
    /\ 1 \in DOMAIN balances
    /\ 10 \in DOMAIN balances[1]
    /\ 12 \notin DOMAIN balances[1]

\* two cycles of one call each, for the same owner and with disjoint keys,
\* are all that was merged
TwoDisjointMerges ==
    /\ Len(cycles) = 2
    /\ AllReturned
    /\ \A i \in 1..2 : Len(cycles[i].calls) = 1 /\ cycles[i].calls[1].st = "ok"
    /\ toAddress(cycles[1].user) = toAddress(cycles[2].user)
    /\ cycles[1].chain = cycles[2].chain
    /\ DOMAIN Partial(1, 1) \cap DOMAIN Partial(2, 1) = {}

\* C7: two partials with disjoint keys merged into the empty cache of one
\* owner leave the cache with the union of both, in whichever order the two
\* calls returned.
C7_DisjointMergesCommute ==
    TwoDisjointMerges
    => /\ DOMAIN data.balances = {cycles[1].chain}
       /\ data.balances[cycles[1].chain] = Spread(Partial(1, 1), Partial(2, 1))
       /\ data.balances[cycles[1].chain] = Spread(Partial(2, 1), Partial(1, 1))
       /\ balances[cycles[1].chain] = data.balances[cycles[1].chain]

\* C7 witness: both merges are applied and the two partials carry different
\* values.
C7_Witness ==
    /\ TwoDisjointMerges
    /\ cycles[1].calls[1].val = 5
    /\ cycles[2].calls[1].val = 7

(***************************************************************************)
(* Properties of the batching of one refresh cycle.                        *)
(***************************************************************************)
\* the least k with k * BatchSize >= n
CeilDiv(n) ==
    CHOOSE k \in 0..(n \div BatchSize + 1) :
        k * BatchSize >= n /\ (k = 0 \/ (k - 1) * BatchSize < n)

\* the addresses of the tokens of cycle c
CycleKeys(c) == {toAddress(c.toks[j].address) : j \in 1..Len(c.toks)}

\* the addresses of the token set of chain 1, each once
Deduplicated ==
    {toAddress(tokens[j].address) : j \in {j \in 1..Len(tokens) : tokens[j].chainID = 1}}

\* C8: a cycle over n deduplicated tokens makes ceil(n / 500) calls, none of
\* more than 500 tokens, pairwise disjoint, together the deduplicated set,
\* and makes no second call for a batch whose call has failed.  The tokens
\* of a cycle are the deduplicated set, each once, and the calls carry
\* consecutive ranges of them, so that no token is in two calls and no
\* range is sent twice.
C8_BatchCount ==
    \A i \in 1..Len(cycles) :
        LET c == cycles[i]
            n == Len(c.toks)
            keys == CycleKeys(c)
        IN /\ keys = Deduplicated
           /\ Cardinality(keys) = n
           /\ \A k \in 1..Len(c.calls) :
                 /\ c.calls[k].lo = (IF k = 1 THEN 1 ELSE c.calls[k - 1].hi + 1)
                 /\ c.calls[k].hi - c.calls[k].lo + 1 \in 1..BatchSize
                 /\ c.calls[k].hi <= n
           /\ Len(c.calls) <= CeilDiv(n)
           /\ CycleDone(c) =>
                 /\ Len(c.calls) = CeilDiv(n)
                 /\ c.calls[Len(c.calls)].hi = n

\* C8 witness: a cycle over 1200 tokens has completed with three calls, the
\* second of which failed.
C8_Witness ==
    \E i \in 1..Len(cycles) :
        /\ Len(cycles[i].toks) = 1200
        /\ CycleDone(cycles[i])
        /\ Len(cycles[i].calls) = 3
        /\ cycles[i].calls[2].st = "err"

\* C9: when a cycle has completed and one of its calls returned an error,
\* the entries of each of its other calls are in the cache and in the
\* exposed balances.
C9_OtherBatchesKept ==
    \A i \in 1..Len(cycles) :
        LET c == cycles[i] IN
        (CycleDone(c) /\ \E k \in 1..Len(c.calls) : c.calls[k].st = "err")
        => \A k \in 1..Len(c.calls) :
              c.calls[k].st = "ok"
              => LET p == Partial(i, k)
                     cached == Get(data.balances, c.chain)
                     shown == Get(balances, c.chain)
                 IN /\ DOMAIN p # {}
                    /\ Spread(cached, p) = cached
                    /\ Spread(shown, p) = shown

\* C9 witness: a cycle of three calls has completed, the second failed and
\* the first and the third succeeded.
C9_Witness ==
    \E i \in 1..Len(cycles) :
        /\ CycleDone(cycles[i])
        /\ Len(cycles[i].calls) = 3
        /\ cycles[i].calls[1].st = "ok"
        /\ cycles[i].calls[2].st = "err"
        /\ cycles[i].calls[3].st = "ok"

InFlight(c) == {k \in 1..Len(c.calls) : c.calls[k].st = "sent"}

\* C10: no cycle of any refresh path has two calls for one chain in flight.
C10_OneCallInFlight ==
    \A i \in 1..Len(cycles) : Cardinality(InFlight(cycles[i])) <= 1

(***************************************************************************)
(* Properties of the token registry.                                       *)
(***************************************************************************)
\* the registry the provider exposes
Aggregate == Memo(tokenList, tokenListExtra, tokenListCustom).value

\* the memo can be computed from the three states
AggregateComputed == ~Memo(tokenList, tokenListExtra, tokenListCustom).threw

\* the entry of a source, or of the registry, for an identity
RegistryEntry(m, c, a) ==
    IF legacy THEN (IF a \in DOMAIN m THEN m[a] ELSE Absent)
    ELSE (IF c \in DOMAIN m /\ a \in DOMAIN m[c] THEN m[c][a] ELSE Absent)

RegAddresses == {10, 12, 14}

\* C4: the registry's entry for an identity is the custom token's entry if
\* there is one, otherwise the extra lists' entry if there is one, otherwise
\* the base lists' entry.
C4_SourcePrecedence ==
    AggregateComputed =>
    \A c \in Chains : \A a \in RegAddresses :
        RegistryEntry(Aggregate, c, a) =
            IF RegistryEntry(tokenListCustom, c, a) # Absent
            THEN RegistryEntry(tokenListCustom, c, a)
            ELSE IF RegistryEntry(tokenListExtra, c, a) # Absent
            THEN RegistryEntry(tokenListExtra, c, a)
            ELSE RegistryEntry(tokenList, c, a)

\* C4 witness: the base lists and the extra lists both hold (1, 10), the
\* custom tokens do not, and the registry shows the extra lists' OVERRIDE.
C4_Witness ==
    /\ ~legacy
    /\ AggregateComputed
    /\ RegistryEntry(tokenList, 1, 10) # Absent
    /\ RegistryEntry(tokenList, 1, 10).symbol # "OVERRIDE"
    /\ RegistryEntry(tokenListExtra, 1, 10) # Absent
    /\ RegistryEntry(tokenListExtra, 1, 10).symbol = "OVERRIDE"
    /\ RegistryEntry(tokenListCustom, 1, 10) = Absent
    /\ RegistryEntry(Aggregate, 1, 10).symbol = "OVERRIDE"

\* the sources that have been built: the tokens read, in order, and the map
\* built from them
BuiltSources ==
    {[kind |-> fetches[i].kind,
      toks |-> Fulfilled(fetches[i].uris, fetches[i].failed, 1),
      map  |-> IF fetches[i].kind = "base" THEN tokenList ELSE tokenListExtra] :
        i \in {i \in 1..Len(fetches) : fetches[i].done /\ ~fetches[i].threw}}
    \cup (IF Len(fetches) > 0 /\ added = {} /\ extraTokens.defined /\ Len(extraTokens.value) > 0
          THEN {[kind |-> "custom", toks |-> extraTokens.value, map |-> tokenListCustom]}
          ELSE {})

\* the tokens of a source that the registry's version can store
Storable(s) ==
    {i \in 1..Len(s.toks) : legacy => s.toks[i].chainId = safeChainID}

SameIdentity(s, i, j) ==
    /\ KeyOf(s.kind, s.toks[i]) = KeyOf(s.kind, s.toks[j])
    /\ toAddress(s.toks[i].address) = toAddress(s.toks[j].address)

\* the entry a source holds for the identity of its i-th token
EntryFor(s, i) ==
    RegistryEntry(s.map, KeyOf(s.kind, s.toks[i]), toAddress(s.toks[i].address))

\* C5 as stated: a source holds, for each identity, the entry of its last
\* occurrence in that source.
C5_LastOccurrenceKept ==
    \A s \in BuiltSources : \A i \in Storable(s) :
        (~\E j \in Storable(s) : j > i /\ SameIdentity(s, i, j))
        => /\ EntryFor(s, i) # Absent
           /\ EntryFor(s, i).symbol = s.toks[i].symbol
           /\ EntryFor(s, i).address = s.toks[i].address

\* C5 amended: a source holds, for each identity, the entry of its first
\* occurrence in that source.
C5_FirstOccurrenceKept ==
    \A s \in BuiltSources : \A i \in Storable(s) :
        (~\E j \in Storable(s) : j < i /\ SameIdentity(s, i, j))
        => /\ EntryFor(s, i) # Absent
           /\ EntryFor(s, i).symbol = s.toks[i].symbol
           /\ EntryFor(s, i).address = s.toks[i].address

\* C5 witness: a source read two tokens of one identity with different
\* symbols and holds the entry of the earlier one.
C5_Witness ==
    \E s \in BuiltSources : \E i \in Storable(s) : \E j \in Storable(s) :
        /\ i < j
        /\ SameIdentity(s, i, j)
        /\ s.toks[i].symbol # s.toks[j].symbol
        /\ ~\E h \in Storable(s) : h < i /\ SameIdentity(s, i, h)
        /\ EntryFor(s, i) # Absent
        /\ EntryFor(s, i).symbol = s.toks[i].symbol

(***************************************************************************)
(* Properties of the deduplication of one refresh cycle.                   *)
(***************************************************************************)
\* the tokens cycle c has sent to the balance service: <<call, position>>
Sent(c) ==
    {x \in (1..Len(c.calls)) \X (1..Len(c.toks)) :
        c.calls[x[1]].lo <= x[2] /\ x[2] <= c.calls[x[1]].hi}

\* C11: within one cycle no two tokens sent to the balance service, in one
\* call or in two, have the same chain and the same normalized address.
C11_NoIdentitySentTwice ==
    \A i \in 1..Len(cycles) :
        LET c == cycles[i] IN
        \A x \in Sent(c) : \A y \in Sent(c) :
            x # y => \/ toAddress(c.toks[x[2]].address) # toAddress(c.toks[y[2]].address)
                     \/ c.toks[x[2]].chainID # c.toks[y[2]].chainID

\* C11 witness: the token set lists one address three times, in two
\* spellings, and a cycle of the trigger over it has sent that address and
\* one other.
C11_Witness ==
    /\ Cardinality({j \in 1..Len(tokens) : toAddress(tokens[j].address) = 10}) = 3
    /\ {10, 11} \subseteq {tokens[j].address : j \in 1..Len(tokens)}
    /\ \E i \in 1..Len(cycles) :
          /\ cycles[i].kind = "trigger"
          /\ Len(cycles[i].calls) = 1
          /\ cycles[i].calls[1].st = "ok"
          /\ {toAddress(cycles[i].toks[x[2]].address) : x \in Sent(cycles[i])} = {10, 12}
          /\ Cardinality(Sent(cycles[i])) = 2

(***************************************************************************)
(* Properties of the list-fetching triggers.                               *)
(***************************************************************************)
\* a document that is a token list whose tokens declare `chainId`
WellFormed(d) ==
    d.hasTokens /\ \A j \in 1..Len(d.tokens) : d.tokens[j].chainId # Undefined

\* the tokens of document d that the registry's version can store
StorableOf(d, chain) ==
    {j \in 1..Len(d.tokens) : legacy => d.tokens[j].chainId = chain}

\* C12: once the fetch of the base lists has ended, every token of every
\* well-formed list that was served is in the aggregated registry, whatever
\* the other URIs did.
C12_WellFormedListsKept ==
    \A i \in 1..Len(fetches) :
        LET f == fetches[i] IN
        (f.kind = "base" /\ f.done /\ AggregateComputed)
        => \A k \in 1..Len(f.uris) :
              (f.uris[k] \notin f.failed /\ WellFormed(docs[f.uris[k]]))
              => \A j \in StorableOf(docs[f.uris[k]], f.chain) :
                    LET t == docs[f.uris[k]].tokens[j] IN
                    RegistryEntry(aggregated.value, t.chainId, toAddress(t.address)) # Absent

\* the tokens of source s that declare their chain under `chainID` only
DeclaredAsChainID(s) ==
    {i \in 1..Len(s.toks) : s.toks[i].chainId = Undefined /\ s.toks[i].chainID # Undefined}

\* the entry of source s at the chain token i declares under `chainID`
EntryAtChainID(s, i) ==
    RegistryEntry(s.map, s.toks[i].chainID, toAddress(s.toks[i].address))

\* C13: in the multichain provider, every source stores a token that declares
\* its chain under `chainID` under that chain, with that chain as its
\* chainID field.
C13_ChainIDSpellingAccepted ==
    ~legacy =>
    \A s \in BuiltSources : \A i \in DeclaredAsChainID(s) :
        /\ EntryAtChainID(s, i) # Absent
        /\ EntryAtChainID(s, i).chainID = s.toks[i].chainID

(***************************************************************************)
(* Properties of overlapping refresh cycles.                               *)
(***************************************************************************)
\* the call k of cycle i returns in this step
ReturnsNow(i, k) ==
    /\ i \in 1..Len(cycles)
    /\ k \in 1..Len(cycles[i].calls)
    /\ cycles[i].calls[k].st = "sent"
    /\ cycles'[i].calls[k].st # "sent"

\* a call made for the active account has been merged and the cache tracks
\* that account
ActiveAccountMerged ==
    /\ data.address = toAddress(userAddress)
    /\ \E j \in 1..Len(cycles) : \E l \in 1..Len(cycles[j].calls) :
          cycles[j].user = userAddress /\ cycles[j].calls[l].st # "sent"

\* C14: a call made for a former account that returns after a call for the
\* active account was merged changes neither the tracked owner nor the
\* entries of the cache.
C14_StaleResponseIgnored ==
    [][\A i \in 1..Len(cycles) : \A k \in 1..Len(cycles[i].calls) :
          (/\ ReturnsNow(i, k)
           /\ toAddress(cycles[i].user) # toAddress(userAddress)
           /\ ActiveAccountMerged)
          => /\ data'.address = data.address
             /\ data'.balances = data.balances]_vars

\* a cycle that has not made or not received all its calls
Outstanding == {i \in 1..Len(cycles) : ~CycleDone(cycles[i])}

\* C15: while a call of any cycle is outstanding the status is loading.
C15_LoadingWhileOutstanding ==
    Outstanding # {} => status.isLoading

\* C16: once every call of every cycle has returned the status is not
\* loading.
C16_LoadingEnds ==
    (mounted /\ AllReturned) => ~status.isLoading

(***************************************************************************)
(* Properties of the wallet context.                                       *)
(***************************************************************************)
\* the tokens of a sequence
Elements(list) == {list[i] : i \in 1..Len(list)}

\* the call j of onRefresh or onRefreshWithList resumes after its await, or
\* returns without one, in this step
ResumesNow(j) ==
    /\ j \in 1..Len(refreshes')
    /\ refreshes'[j].returned
    /\ j \in 1..Len(refreshes) => ~refreshes[j].returned

\* what a call has asked the hook for: a subset goes to onUpdateSome and
\* nothing but tokens of the subset is sent; no subset goes to onUpdate,
\* which sends the known tokens of the active chain
FetchesWhatItWasGiven(r) ==
    IF Len(r.subset) > 0
    THEN /\ r.cycle \in 1..Len(cycles)
         /\ cycles[r.cycle].kind = "onUpdateSome"
         /\ Elements(cycles[r.cycle].toks) \subseteq Elements(r.subset)
    ELSE \/ r.cycle = 0 /\ (r.kind = "onRefresh" => Len(NonZero(tokens)) = 0)
         \/ /\ r.cycle \in 1..Len(cycles)
            /\ cycles[r.cycle].kind = "onUpdate"
            /\ cycles[r.cycle].toks = tokensPerChainID(NonZero(tokens), chainID)

\* C17 as the specification states it: a call of onRefresh with a non-empty
\* subset fetches that subset only and, once it has returned, the tokens of
\* the subset are in the extraTokens storage; a call with no subset
\* refreshes the known tokens of the active chain and writes nothing.
C17_SubsetAlwaysPersisted ==
    \A j \in 1..Len(refreshes) :
        /\ FetchesWhatItWasGiven(refreshes[j])
        /\ (refreshes[j].returned /\ Len(refreshes[j].subset) > 0)
              => \A i \in 1..Len(refreshes[j].subset) :
                    toTokenListToken(refreshes[j].subset[i]) \in Elements(storedExtraTokens)

\* C17, amended: a call of onRefresh with a non-empty subset fetches tokens
\* of that subset only, and when it resumes it writes the storage if and
\* only if shouldSaveInStorage was passed as true: the stored tokens its
\* closure holds, followed by the subset.  A call with no subset refreshes
\* the known tokens of the active chain.  No other call writes the storage:
\* not a call without the flag (as onRefreshWithList makes it), not a call
\* with no subset.
C17_SubsetPersistedOnFlag ==
    /\ [](\A j \in 1..Len(refreshes) : FetchesWhatItWasGiven(refreshes[j]))
    /\ [][LET saving == {j \in 1..Len(refreshes') :
                            /\ ResumesNow(j)
                            /\ refreshes'[j].save
                            /\ Len(refreshes'[j].subset) > 0}
          IN /\ \A j \in saving : extraTokens' = SavedBy(refreshes'[j])
             /\ saving = {} => extraTokens' = extraTokens]_vars

\* a call with a subset and the flag has fetched and written the storage,
\* and a call with a subset and no flag has fetched and written nothing
C17_Witness ==
    \E j, k \in 1..Len(refreshes) :
        /\ j < k
        /\ refreshes[j].returned /\ ~refreshes[j].save
        /\ Len(refreshes[j].subset) > 0
        /\ Len(cycles[refreshes[j].cycle].calls) > 0
        /\ refreshes[k].returned /\ refreshes[k].save
        /\ Len(refreshes[k].subset) > 0
        /\ Len(cycles[refreshes[k].cycle].calls) > 0
        /\ extraTokens = SavedBy(refreshes[k])
        /\ \E i \in 1..Len(refreshes[j].subset) :
              toTokenListToken(refreshes[j].subset[i]) \notin Elements(storedExtraTokens)

\* token t is in the known token set: same chain, same normalized address
Known(t) ==
    \E i \in 1..Len(tokens) :
        /\ tokens[i].chainID = t.chainID
        /\ toAddress(tokens[i].address) = toAddress(t.address)

\* the tokens of a supplied list, with normalized addresses
Supplied(list) ==
    {Token(toAddress(list[i].address), list[i].chainID) : i \in 1..Len(list)}

\* C18: a call of onRefreshWithList sends to the balance service only tokens
\* of the supplied list that are not in the known token set (same chain and
\* same normalized address); when every supplied token is known, the call
\* starts no cycle of the hook, changes nothing of the hook's state and
\* returns the balances as they are.
C18_OnlyUnknownTokensRequested ==
    /\ [](\A j \in 1..Len(refreshes) :
             LET r == refreshes[j] IN
             (r.kind = "onRefreshWithList" /\ r.cycle # 0)
                => \A t \in Elements(cycles[r.cycle].toks) :
                      t \in Supplied(r.list) /\ ~Known(t))
    /\ [][\A j \in 1..Len(refreshes') :
             LET r == refreshes'[j] IN
             (/\ j > Len(refreshes)
              /\ r.kind = "onRefreshWithList"
              /\ \A t \in Supplied(r.list) : Known(t))
                => /\ UNCHANGED hookVars
                   /\ r.cycle = 0 /\ r.returned
                   /\ r.value = balances]_vars

\* one call was given a known token and an unknown one and has the unknown
\* one in a call to the balance service; another was given known tokens
\* only and has returned the balances, which hold entries
C18_Witness ==
    \E j, k \in 1..Len(refreshes) :
        /\ refreshes[j].kind = "onRefreshWithList"
        /\ \E t \in Supplied(refreshes[j].list) : Known(t)
        /\ refreshes[j].cycle # 0
        /\ Sent(cycles[refreshes[j].cycle]) # {}
        /\ refreshes[k].kind = "onRefreshWithList"
        /\ \A t \in Supplied(refreshes[k].list) : Known(t)
        /\ refreshes[k].cycle = 0
        /\ refreshes[k].value # EmptyMap

(***************************************************************************)
(* Properties of the published registry.                                   *)
(***************************************************************************)
\* C19: once addCustomToken(t) has been called, the published registry
\* (tokenLists, and so currentNetworkTokenList and getToken, which read it)
\* holds t under t.chainID and the normalized t.address, whatever else has
\* or has not happened since.
C19_AddedTokenPublished ==
    \A t \in added :
        RegistryEntry(aggregated.value, t.chainID, toAddress(t.address)) = t

\* C20: in the single-chain version every entry of every source map is
\* built from a token that declares the active chain: the entry's chain is
\* the active chain, and no entry comes from a token whose chain is another
\* one, is absent, or is 0.
C20_LegacyKeepsActiveChainOnly ==
    legacy =>
        \A s \in BuiltSources : \A a \in DOMAIN s.map :
            /\ s.map[a].chainID = safeChainID
            /\ \E i \in 1..Len(s.toks) :
                  /\ toAddress(s.toks[i].address) = a
                  /\ s.toks[i].chainId = safeChainID
                  /\ s.map[a] = MakeToken(s.toks[i], safeChainID)
            /\ \A i \in 1..Len(s.toks) :
                  s.toks[i].chainId # safeChainID
                     => s.map[a] # MakeToken(s.toks[i], s.toks[i].chainId)

\* a source of the single-chain version has read a token of the active
\* chain, one of another chain, one of chain 0 and one without `chainId`,
\* and holds an entry
C20_Witness ==
    /\ legacy
    /\ \E s \in BuiltSources :
          /\ s.map # EmptyMap
          /\ \E i, j, k \in 1..Len(s.toks) :
                /\ s.toks[i].chainId = 0
                /\ s.toks[j].chainId = Undefined
                /\ s.toks[k].chainId \notin {0, Undefined, safeChainID}
                /\ {toAddress(s.toks[i].address), toAddress(s.toks[j].address),
                    toAddress(s.toks[k].address)} \cap DOMAIN s.map = {}

\* every started fetch has settled
AllFetched == Len(fetches) > 0 /\ \A i \in 1..Len(fetches) : fetches[i].done

\* what the trigger of the last fetch of a kind leaves in its state, by the
\* documents served and the URIs that failed alone
SourceOf(kind) ==
    LET f    == fetches[CHOOSE i \in 1..Len(fetches) :
                           /\ fetches[i].kind = kind
                           /\ \A j \in (i + 1)..Len(fetches) : fetches[j].kind # kind]
        toks == Fulfilled(f.uris, f.failed, 1)
    IN IF TriggerThrows(f.uris, f.failed) THEN EmptyMap
       ELSE IF legacy THEN BuildLegacy(toks, safeChainID)
       ELSE BuildTokens(kind, toks)

\* C21: once the fetches of the base lists and of the user-added lists have
\* both settled, the three source maps and the published registry are what
\* the documents served determine, whichever of the two settled first.
C21_FetchOrderIrrelevant ==
    (AllFetched /\ added = {})
        => /\ tokenList = SourceOf("base")
           /\ tokenListExtra = SourceOf("extra")
           /\ tokenListCustom = CustomTrigger(EmptyMap)
           /\ aggregated = Memo(SourceOf("base"), SourceOf("extra"), CustomTrigger(EmptyMap))

\* the fetch of the user-added lists has settled before that of the base
\* lists, both hold a token of the same identity, and the registry holds
\* the one of the user-added lists
C21_Witness ==
    /\ AllFetched /\ added = {} /\ ~legacy
    /\ \E i, j \in 1..Len(fetches) :
          /\ fetches[i].kind = "base" /\ fetches[j].kind = "extra"
          /\ fetches[j].order < fetches[i].order
    /\ RegistryEntry(tokenList, 1, 10) # Absent
    /\ RegistryEntry(tokenListExtra, 1, 10) # Absent
    /\ RegistryEntry(tokenListExtra, 1, 10) # RegistryEntry(tokenList, 1, 10)
    /\ RegistryEntry(tokenListCustom, 1, 10) = Absent
    /\ ~aggregated.threw
    /\ RegistryEntry(aggregated.value, 1, 10) = RegistryEntry(tokenListExtra, 1, 10)

(***************************************************************************)
(* Properties of the exposed balances.                                     *)
(***************************************************************************)
\* C22 as the specification states it: the exposed balances hold entries
\* for the active chain only.
C22_ActiveChainOnly ==
    \A c \in DOMAIN balances : balances[c] # EmptyMap => c = chainID

\* the entry under (c, a) is one a cycle running for chain c has fetched
FetchedUnder(c, a, entry) ==
    \E i \in 1..Len(cycles) : \E k \in 1..Len(cycles[i].calls) :
        /\ cycles[i].chain = c
        /\ a \in DOMAIN Partial(i, k)
        /\ Partial(i, k)[a] = entry

\* C22, amended: the exposed balances are keyed by chain.  Every entry under
\* a chain's key was fetched by a cycle running for that chain, and no step
\* takes an entry away: after the active chain has been switched, what was
\* fetched under the previous chain stays exposed under the previous
\* chain's key, and never under the active chain's.
C22_EntriesUnderTheirChain ==
    /\ [](\A c \in DOMAIN balances : \A a \in DOMAIN balances[c] :
             FetchedUnder(c, a, balances[c][a]))
    /\ [][\A c \in DOMAIN balances :
             /\ c \in DOMAIN balances'
             /\ DOMAIN balances[c] \subseteq DOMAIN balances'[c]]_vars

\* the active chain is 2 and the balances hold what was fetched under
\* chain 1 and what was fetched under chain 2
C22_Witness ==
    /\ chainID = 2
    /\ {1, 2} \subseteq DOMAIN balances
    /\ balances[1] # EmptyMap
    /\ balances[2] # EmptyMap
    /\ DOMAIN balances[1] \cap DOMAIN balances[2] = {}

\* C23: once every started fetch has settled, the source maps and the
\* published registry are those of the latest inputs (the current URIs and,
\* in the single-chain version, the current chain), whatever the order in
\* which the fetches settled.
C23_LatestInputsWin ==
    AllFetched
        => /\ tokenList = SourceOf("base")
           /\ tokenListExtra = SourceOf("extra")
           /\ aggregated = Memo(SourceOf("base"), SourceOf("extra"), tokenListCustom)

(***************************************************************************)
(* Arrival order.  The calls of all cycles are replayed in start order,    *)
(* cycle after cycle and batch after batch, as if each had returned before *)
(* the next was sent: one of the orders in which they may arrive.          *)
(***************************************************************************)
\* the cache and the balances after call k of cycle i has arrived
Arrive(s, i, k) ==
    LET c    == cycles[i]
        d    == MergeInto(s.data, c.user, c.chain, Partial(i, k))
        last == k = Len(c.calls)
    IN [data |-> d,
        balances |-> IF c.kind = "trigger" THEN SetChainBalances(s.balances, c.chain, d)
                     ELSE IF ~last THEN s.balances
                     ELSE IF c.kind = "onUpdate" THEN SetChainBalances(s.balances, c.chain, d)
                     ELSE SetAllBalances(s.balances, d)]

RECURSIVE Replay(_, _, _)
Replay(s, i, k) ==
    IF i > Len(cycles) THEN s
    ELSE IF k > Len(cycles[i].calls)
    THEN Replay(s, i + 1, 1)
    ELSE IF Len(cycles[i].calls) = 0
    THEN Replay([s EXCEPT !.balances = IF cycles[i].kind = "onUpdateSome"
                                       THEN SetAllBalances(s.balances, s.data)
                                       ELSE s.balances], i + 1, 1)
    ELSE Replay(Arrive(s, i, k), i, k + 1)

InStartOrder ==
    Replay([data |-> [nonce |-> 0, address |-> toAddress(Undefined), balances |-> EmptyMap],
            balances |-> EmptyMap], 1, 1)

\* C24: once every call has returned, the cache and the exposed balances
\* are what they are when the calls arrive in start order, in whatever
\* order they have arrived.
C24_ArrivalOrderIrrelevant ==
    (mounted /\ AllReturned)
        => /\ data.address = InStartOrder.data.address
           /\ data.balances = InStartOrder.data.balances
           /\ balances = InStartOrder.balances

C26_FailedBatchLeavesCache ==
    [][\A i \in 1..Len(cycles) : \A k \in 1..Len(cycles[i].calls) :
          (/\ ReturnsNow(i, k)
           /\ cycles'[i].calls[k].st = "err"
           /\ toAddress(cycles[i].user) = data.address)
          => data' = data]_vars

\* the entries alone are left as they were by such a batch
C26_FailedBatchKeepsEntries ==
    [][\A i \in 1..Len(cycles) : \A k \in 1..Len(cycles[i].calls) :
          (/\ ReturnsNow(i, k)
           /\ cycles'[i].calls[k].st = "err"
           /\ toAddress(cycles[i].user) = data.address)
          => (data'.balances = data.balances /\ data'.address = data.address)]_vars

(***************************************************************************)
(* The error and the status the hook reports.                              *)
(***************************************************************************)
\* C27: once every call has returned, if a batch of the cycle started last
\* returned an error then `error` holds an error of that cycle, whatever
\* the other batches of the cycle returned and whenever they returned.
C27_ErrorOfLastCycleRetained ==
    (/\ cycles # << >>
     /\ AllReturned
     /\ \E k \in 1..Len(cycles[Len(cycles)].calls) : cycles[Len(cycles)].calls[k].st = "err")
    => error = Len(cycles)

\* C28: in every reachable state isError is false and the composite status
\* the hook returns is one of unknown, loading and success, never error.
C28_NeverReportsError ==
    /\ status.isError = FALSE
    /\ contextValueStatus(status) \in {"unknown", "loading", "success"}

\* a cycle has completed in which every batch returned an error, and the
\* hook reports success
C28_Witness ==
    /\ cycles # << >>
    /\ AllReturned
    /\ \E i \in 1..Len(cycles) :
          /\ cycles[i].calls # << >>
          /\ \A k \in 1..Len(cycles[i].calls) : cycles[i].calls[k].st = "err"
    /\ error # 0
    /\ contextValueStatus(status) = "success"

(***************************************************************************)
(* Keys and fields of the registry.                                        *)
(***************************************************************************)
\* every token of the map m is under the chain its chainID field names and
\* under the address its address normalizes to
KeyedByItsFields(m) ==
    \A c \in DOMAIN m : \A a \in DOMAIN m[c] :
        /\ m[c][a].chainID = c
        /\ toAddress(m[c][a].address) = a

\* C29: in the multichain provider every token of the three sources and of
\* the aggregated registry is stored under the chain its chainID field
\* names and the address its address normalizes to, whatever chain fields
\* the token document carried.
C29_StoredUnderOwnChainAndAddress ==
    ~legacy =>
       /\ KeyedByItsFields(tokenList)
       /\ KeyedByItsFields(tokenListExtra)
       /\ KeyedByItsFields(tokenListCustom)
       /\ KeyedByItsFields(aggregated.value)

\* the same of the sources that read one chain field for both the key and
\* the stored field
C29_BaseAndCustomKeyed ==
    ~legacy => (KeyedByItsFields(tokenList) /\ KeyedByItsFields(tokenListCustom))

(***************************************************************************)
(* The storage slot of the user-added tokens.                              *)
(***************************************************************************)
\* C30: the persisted list of user-added tokens holds at most one entry
\* per chain and normalized address, whatever onRefresh calls have saved.
C30_NoDuplicateStoredToken ==
    \A i, j \in 1..Len(storedExtraTokens) :
        (/\ storedExtraTokens[i].chainId = storedExtraTokens[j].chainId
         /\ toAddress(storedExtraTokens[i].address) = toAddress(storedExtraTokens[j].address))
        => i = j

(***************************************************************************)
(* useBridge: quotes requested while others are in flight.                 *)
(***************************************************************************)
\* invocation i ran to the end of onRetrieveQuote
ProducedResult(i) == quotes[i].pc = "done" /\ quotes[i].outcome \in QuoteResults

\* what invocation i leaves in latestQuote
ResultOf(i) == IF quotes[i].outcome = "quote" THEN QuoteOf(i) ELSE NoQuote

\* C31: when onRetrieveQuote was invoked again with other inputs before an
\* earlier invocation had finished, then once every invocation has
\* finished latestQuote is what the invocation made last produced,
\* whatever the order in which the quote calls returned.
C31_LatestQuoteOfLastInvocation ==
    LET n == Len(quotes) IN
    (/\ n >= 2
     /\ \A i \in 1..n : quotes[i].pc = "done"
     /\ quotes[n].input # 0 /\ quotes[n - 1].input # 0
     /\ quotes[n].input # quotes[n - 1].input
     /\ ProducedResult(n))
    => latestQuote = ResultOf(n)

(***************************************************************************)
(* The vault hooks.                                                        *)
(***************************************************************************)
\* a call of `op` is in progress
InProgress(op) ==
    \E i \in 1..Len(vaultCalls) : vaultCalls[i].op = op /\ vaultCalls[i].end = "running"

\* C32: the in-progress flags are true only while a call is in progress:
\* when every call of onWithdraw (onDeposit) made so far has returned or
\* thrown, isWithdrawing (isDepositing) is false.
C32_FlagsOnlyWhileInProgress ==
    /\ ~InProgress("onWithdraw") => ~isWithdrawing
    /\ ~InProgress("onDeposit") => ~isDepositing

\* the call submitted a withdraw or redeem transaction
Submitted(call) == call.txs # << >>

\* C33: a call of onWithdraw submits no transaction when its canWithdraw
\* is false, when toWagmiProvider gave it no wallet address, or, for an
\* ERC-4626 vault, when its minOutSlippage or redeemTolerance is outside
\* [0, 10000]; and a call whose canWithdraw is false returns false at once
\* and leaves isWithdrawing as it was.
C33_NoTransactionUnlessAllowed ==
    /\ [](\A i \in 1..Len(vaultCalls) :
            LET call == vaultCalls[i] IN
            call.op = "onWithdraw" =>
              /\ ~canWithdraw(call.args) => ~Submitted(call)
              /\ (call.wallet # "address" /\ call.end # "running") => ~Submitted(call)
              /\ (call.args.version = "ERC-4626" /\ ~WithdrawArgsValid(call.args))
                    => ~Submitted(call))
    /\ [][(Len(vaultCalls') = Len(vaultCalls) + 1
           /\ vaultCalls'[Len(vaultCalls')].op = "onWithdraw"
           /\ ~canWithdraw(vaultArgs))
          => /\ vaultCalls'[Len(vaultCalls')].end = "returned"
             /\ vaultCalls'[Len(vaultCalls')].value = FALSE
             /\ isWithdrawing' = isWithdrawing]_vars

\* while a call of onWithdraw is in progress, a second one made after the
\* amount was set to 0 has returned false and submitted nothing
C33_Witness ==
    /\ Len(vaultCalls) = 2
    /\ vaultCalls[1].op = "onWithdraw" /\ vaultCalls[1].end = "running"
    /\ canWithdraw(vaultCalls[1].args)
    /\ ~canWithdraw(vaultCalls[2].args)
    /\ vaultCalls[2].end = "returned" /\ vaultCalls[2].value = FALSE
    /\ ~Submitted(vaultCalls[2])
    /\ isWithdrawing

\* the calls of onWithdraw that reached withdrawFrom4626Vault
Withdrawn4626 ==
    {i \in 1..Len(vaultCalls) : /\ vaultCalls[i].op = "onWithdraw"
                                /\ vaultCalls[i].args.version = "ERC-4626"
                                /\ Submitted(vaultCalls[i])}

\* C34: on the ERC-4626 path a call whose requested amount converts to
\* exactly the shares the user has redeems all the shares, whatever the
\* tolerance and the share balance; a redeem is always for the available
\* shares and a withdraw always for amountToWithdraw.
C34_RedeemWhenAskingForAll ==
    \A i \in Withdrawn4626 :
        LET call == vaultCalls[i]
            tx   == call.txs[1]
        IN /\ call.shares.asked = call.shares.available
                => tx = Tx("redeem", call.shares.available)
           /\ tx.fn = "redeem" => tx.amount = call.shares.available
           /\ tx.fn = "withdraw" => tx.amount = call.args.amount

\* the amounts alone: a redeem is for the available shares, a withdraw for
\* amountToWithdraw
C34_AmountsMatchTheMethod ==
    \A i \in Withdrawn4626 :
        LET call == vaultCalls[i]
            tx   == call.txs[1]
        IN /\ tx.fn = "redeem" => tx.amount = call.shares.available
           /\ tx.fn = "withdraw" => tx.amount = call.args.amount

\* an onExecuteDeposit call of the hook is past its start and not finished
Executing == \E i \in DOMAIN executions : executions[i].end = "running"

\* C35: whenever no onExecuteDeposit call of usePortals or useBridge is
\* still running (every call has returned or thrown, for any reason),
\* isDepositing is false, and a call that returned has called exactly one
\* of onSuccess and onFailure, once.
C35_ExecuteDepositSettles ==
    /\ ~Executing => ~isDepositingOf
    /\ \A i \in DOMAIN executions :
         executions[i].end = "returned" =>
           executions[i].onSuccess + executions[i].onFailure = 1

\* the second half of C35 alone
C35_OneCallbackPerReturnedCall ==
    \A i \in DOMAIN executions :
      executions[i].end = "returned" =>
        executions[i].onSuccess + executions[i].onFailure = 1

\* the first half of C35 without the failed preconditions and without the
\* Safe path's failed transaction-data request
C35_FlagClearedAfterExecuteSettled ==
    (/\ ~Executing
     /\ \A i \in DOMAIN executions :
          executions[i].at \in {"transaction", "send", "assert"}
          \/ (executions[i].at = "getPortalsTx" /\ ~executions[i].isWalletSafe))
    => ~isDepositingOf

\* the call has ended and no timer of it is still to fire: it reports
\* nothing any more
TransferSettled(call) == call.end # "running" /\ call.timer # "set"

\* C36: a transferEther call that reported pending and can report nothing
\* any more has reported, after pending, exactly one of success and error
\* and then the default status, so its last reported status is not
\* pending, whatever the outcome of the call.
C36_PendingIsFollowedByOutcomeAndReset ==
    \A i \in DOMAIN transfers :
      (TransferSettled(transfers[i]) /\ transfers[i].reported # << >>) =>
        \E s \in {"success", "error"} :
          transfers[i].reported = <<"pending", s, "default">>

\* C36 for the calls that entered the try block
C36_OutcomeAndResetInsideTry ==
    \A i \in DOMAIN transfers :
      (TransferSettled(transfers[i])
       /\ transfers[i].at \in {"sendTransaction", "waitForTransactionReceipt"}) =>
        \E s \in {"success", "error"} :
          transfers[i].reported = <<"pending", s, "default">>

\* the getConfig calls so far, by position in configCalls
GetConfigCalls == {i \in DOMAIN configCalls : configCalls[i].fn = "getConfig"}

\* the getConfig calls that returned
GetConfigReturns == {i \in GetConfigCalls : configCalls[i].end = "returned"}

\* every retrieveConfig call before call f threw, and every call after
\* call f returned the configuration call f built
SetOnceFrom(f) ==
    /\ \A j \in DOMAIN configCalls :
         (j < f /\ configCalls[j].fn = "retrieveConfig") => configCalls[j].end = "threw"
    /\ \A j \in DOMAIN configCalls :
         j > f => /\ configCalls[j].end = "returned"
                  /\ configCalls[j].value = BuildConfig(configCalls[f].chains, f)

\* C37 as stated: retrieveConfig throws before the first getConfig call, and
\* after the first getConfig call every later getConfig and retrieveConfig
\* call returns the configuration that first call built.
C37_SetByFirstCall ==
    \A f \in GetConfigCalls :
      (\A g \in GetConfigCalls : f <= g) => SetOnceFrom(f)

\* C37: the configuration singleton is set once, by the first getConfig
\* call that returns: every retrieveConfig call before it throws, every
\* getConfig call before it threw and left the singleton unset, and every
\* later getConfig and retrieveConfig call returns the configuration it
\* built, whatever chains are passed; CONFIG holds that configuration.
C37_SetByFirstReturnedCall ==
    /\ \A f \in GetConfigReturns :
         (\A g \in GetConfigReturns : f <= g) =>
           /\ SetOnceFrom(f)
           /\ CONFIG = BuildConfig(configCalls[f].chains, f)
    /\ GetConfigReturns = {} =>
         /\ CONFIG = NoConfig
         /\ \A j \in DOMAIN configCalls : configCalls[j].end = "threw"

\* a getConfig call threw for an unsupported chain, the next one built the
\* configuration, and a later getConfig call with other chains got the same
\* configuration back
C37_Witness ==
    /\ Len(configCalls) = 3
    /\ configCalls[1].fn = "getConfig" /\ configCalls[1].end = "threw"
    /\ configCalls[2].fn = "getConfig" /\ configCalls[2].end = "returned"
    /\ configCalls[3].fn = "getConfig"
    /\ configCalls[3].chains # configCalls[2].chains
    /\ configCalls[3].value = configCalls[2].value

====
